------------------------------ MODULE ByteArray ------------------------------
(***************************************************************************)
(* What the callers of an attribute may rely on: an array of bytes.  A     *)
(* read and a write copy their bytes one by one, in any order, and the     *)
(* copies of several callers mix.  A write beyond the end first makes the  *)
(* array longer, which others may see; what comes in between, and what any *)
(* growth adds, is zero.                                                   *)
(*                                                                         *)
(* It is a contract: nothing is promised from the moment when a caller     *)
(* changes the size while another one waits, or asks for a size that does  *)
(* not fit.                                                                *)
(***************************************************************************)
EXTENDS Naturals, Sequences

CONSTANTS Caller, Position, Length, Size, Datum, Zero, None,
          Fitting  \* the sizes that may be asked for

VARIABLES
  content,  \* the bytes
  request,  \* what each caller waits for, or None
  copied,   \* the positions that the call of each caller has copied
  answer,   \* the positions and bytes that the last call of each one read
  kept      \* whether the callers kept the contract

arrayVars == <<content, request, copied, answer, kept>>

Reads == [op : {"read"}, pos : Position, len : Length, datum : {Zero}]
Writes == [op : {"write"}, pos : Position, len : Length, datum : Datum]
Resizes == [op : {"resize"}, pos : {0}, len : Size, datum : {Zero}]

End(r) == r.pos + r.len

Resized(n) == [i \in 1..n |-> IF i <= Len(content) THEN content[i] ELSE Zero]

Asked(c, op) == request[c] # None /\ request[c].op = op

\* The call changes the size.
Resizing(r) == r.op = "resize" \/ (r.op = "write" /\ End(r) > Len(content))

\* What there is of the range of a call.
Present(c) ==
  (request[c].pos + 1)
    ..(IF End(request[c]) < Len(content) THEN End(request[c]) ELSE Len(content))

Done(c) ==
  /\ request' = [request EXCEPT ![c] = None]
  /\ copied' = [copied EXCEPT ![c] = {}]

-----------------------------------------------------------------------------
Init ==
  /\ content = <<>>
  /\ request = [c \in Caller |-> None]
  /\ copied = [c \in Caller |-> {}]
  /\ answer = [c \in Caller |-> {}]
  /\ kept = TRUE

Ask(c, r) ==
  /\ request[c] = None
  /\ request' = [request EXCEPT ![c] = r]
  /\ answer' = [answer EXCEPT ![c] = {}]
  /\ kept' = /\ kept
             /\ r.op = "read" \/ End(r) \in Fitting
             /\ \A d \in Caller : request[d] # None =>
                  ~Resizing(r) /\ ~Resizing(request[d])
  /\ UNCHANGED <<content, copied>>

ReadByte(c) ==
  /\ Asked(c, "read")
  /\ \E i \in Present(c) \ copied[c] :
       /\ answer' = [answer EXCEPT ![c] = @ \cup {<<i, content[i]>>}]
       /\ copied' = [copied EXCEPT ![c] = @ \cup {i}]
  /\ UNCHANGED <<content, request, kept>>

Extend(c) ==
  /\ Asked(c, "write")
  /\ End(request[c]) > Len(content)
  /\ content' = Resized(End(request[c]))
  /\ UNCHANGED <<request, copied, answer, kept>>

WriteByte(c) ==
  /\ Asked(c, "write")
  /\ End(request[c]) <= Len(content)
  /\ \E i \in Present(c) \ copied[c] :
       /\ content' = [content EXCEPT ![i] = request[c].datum]
       /\ copied' = [copied EXCEPT ![c] = @ \cup {i}]
  /\ UNCHANGED <<request, answer, kept>>

\* All of a read or a write is copied, a read as far as there is anything.
Return(c) ==
  /\ Asked(c, "read") \/ (Asked(c, "write") /\ End(request[c]) <= Len(content))
  /\ copied[c] = Present(c)
  /\ Done(c)
  /\ UNCHANGED <<content, answer, kept>>

Resize(c) ==
  /\ Asked(c, "resize")
  /\ content' = Resized(request[c].len)
  /\ Done(c)
  /\ UNCHANGED <<answer, kept>>

\* There is no memory for a longer array: nothing changes.
Refuse(c) ==
  /\ Asked(c, "write") \/ Asked(c, "resize")
  /\ End(request[c]) > Len(content)
  /\ Done(c)
  /\ UNCHANGED <<content, answer, kept>>

\* A contract that was not kept is lost.
Lost == ~kept /\ ~kept'

Next ==
  \/ \E c \in Caller :
       \/ \E r \in Reads \cup Writes \cup Resizes : Ask(c, r)
       \/ ReadByte(c) \/ Extend(c) \/ WriteByte(c) \/ Return(c)
       \/ Resize(c) \/ Refuse(c)
  \/ Lost

Spec == Init /\ [][Next]_arrayVars
=============================================================================
