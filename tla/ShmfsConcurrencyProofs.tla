---------------------- MODULE ShmfsConcurrencyProofs ----------------------
(***************************************************************************)
(* Proofs about ShmfsConcurrency for every set of threads, vnodes, numbers *)
(* and names, when Create is not called on directories that are removed.   *)
(***************************************************************************)
EXTENDS ShmfsConcurrency, FiniteSetTheorems, SequenceTheorems, TLAPS

-----------------------------------------------------------------------------
(* A call is in one of these stages: the plans that the actions make, and  *)
(* what is left of them after each step.                                   *)

PlanOf == [
  idle        |-> <<>>,
  make        |-> <<"GetVnode", "publish">>,
  publish     |-> <<"publish">>,
  put         |-> <<"release", "delete", "drop">>,
  putDelete   |-> <<"delete", "drop">>,
  putDrop     |-> <<"drop">>,
  lookup      |-> <<"get", "unlock">>,
  dots        |-> <<"getDots", "unlock">>,
  unlock      |-> <<"unlock">>,
  create      |-> <<"get", "insert", "unlock">>,
  insert      |-> <<"insert", "unlock">>,
  take        |-> <<"release", "delete", "unlock">>,
  takeDelete  |-> <<"delete", "unlock">>,
  both        |-> <<"release", "delete", "drop", "release", "delete", "unlock">>,
  bothDelete  |-> <<"delete", "drop", "release", "delete", "unlock">>,
  bothDrop    |-> <<"drop", "release", "delete", "unlock">>,
  rmdir       |-> <<"release", "delete", "mark", "unlock">>,
  rmdirDelete |-> <<"delete", "mark", "unlock">>,
  mark        |-> <<"mark", "unlock">>]

Stages == {"idle", "make", "publish", "put", "putDelete", "putDrop", "lookup",
           "dots", "unlock", "create", "insert", "take", "takeDelete", "both",
           "bothDelete", "bothDrop", "rmdir", "rmdirDelete", "mark"}

StageOf(plan) == CHOOSE s \in Stages : PlanOf[s] = plan
Stage(t) == StageOf(thread[t].plan)

\* The volume lock is held.
LockStages == {"lookup", "dots", "unlock", "create", "insert", "take", "takeDelete",
               "both", "bothDelete", "bothDrop", "rmdir", "rmdirDelete", "mark"}

\* The entry of the call's number is busy for the call.
BusyStages == {"make", "publish", "put", "putDelete", "putDrop", "both",
               "bothDelete", "bothDrop"}

\* The reference of the tree is the call's, to give or to release.
TreeStages == {"create", "insert", "take", "both", "bothDelete", "bothDrop",
               "rmdir"}

DeleteStages == {"putDelete", "takeDelete", "rmdirDelete"}

HasTree(t) == Stage(t) \in TreeStages

\* The reference of the VFS is the call's.
HasVfs(t) == \/ Stage(t) \in {"put", "both"}
             \/ Stage(t) = "publish" /\ thread[t].vnode # Null

-----------------------------------------------------------------------------
(* The inductive invariant.                                                *)

Types ==
  /\ TypeOK
  /\ vn \in [Vnode -> Objects \cup {Absent}]
  /\ entry \in [Id -> Entries \cup {Absent}]
  /\ thread \in [Thread -> Calls]

Planned(t) ==
  /\ Stage(t) \in Stages
  /\ thread[t].plan = PlanOf[Stage(t)]
  /\ Stage(t) = "idle" => thread[t] = Idle

LockHeld(t) == (Stage(t) \in LockStages) <=> (lock = t)

EntryHeld(t) ==
  Stage(t) \in BusyStages =>
    thread[t].id \in Id /\ Known(thread[t].id) /\ entry[thread[t].id].busy = t

\* A vnode being destroyed: nobody has a reference to it, but it exists.
Destroys(t) ==
  thread[t].todo # <<>> =>
    /\ Stage(t) \in DeleteStages
    /\ thread[t].vnode \in Vnode /\ thread[t].todo = <<thread[t].vnode>>
    /\ Alive(thread[t].vnode) /\ fRef[thread[t].vnode] = 0
    /\ Stage(t) = "putDelete" => IdOf(thread[t].vnode) = thread[t].id

TreeHeld(t) ==
  HasTree(t) =>
    /\ thread[t].vnode \in Vnode
    /\ Alive(thread[t].vnode) /\ ~Linked(thread[t].vnode)

VfsHeld(t) ==
  HasVfs(t) =>
    /\ thread[t].vnode \in Vnode
    /\ Alive(thread[t].vnode) /\ IdOf(thread[t].vnode) = thread[t].id

\* A directory that a path leads to.
Reachable(d) ==
  d = Root \/ (d \in Vnode /\ Alive(d) /\ Kind(d) = "dir" /\ Linked(d))

Creates(t) ==
  Stage(t) \in {"create", "insert"} =>
    /\ thread[t].id \in Id /\ IdOf(thread[t].vnode) = thread[t].id
    /\ thread[t].name \in Name /\ Reachable(thread[t].dir)
    /\ fNodes[thread[t].dir][thread[t].name] = Null

Looks(t) ==
  /\ Stage(t) \in {"lookup", "dots"} => thread[t].id \in Id
  /\ Stage(t) = "lookup" =>
       fIds[thread[t].id] \in Vnode /\ Linked(fIds[thread[t].id])

CallInv(t) ==
  /\ Planned(t) /\ LockHeld(t) /\ EntryHeld(t) /\ Destroys(t)
  /\ TreeHeld(t) /\ VfsHeld(t) /\ Creates(t) /\ Looks(t)

\* A busy entry is busy for a call that says so.
BusyOwned ==
  \A i \in Id : Busy(i) =>
    /\ entry[i].busy \in Thread /\ Stage(entry[i].busy) \in BusyStages
    /\ thread[entry[i].busy].id = i

EntriesLive ==
  \A i \in Id : Ready(i) =>
    /\ entry[i].vnode \in Vnode
    /\ Alive(entry[i].vnode) /\ IdOf(entry[i].vnode) = i

IdsExact ==
  /\ \A i \in Id : fIds[i] # Null => Alive(fIds[i]) /\ IdOf(fIds[i]) = i
  /\ \A v \in Vnode : Alive(v) /\ IdOf(v) # Null => fIds[IdOf(v)] = v

\* Entries are in directories that a path leads to; a vnode has one.
TreeOK ==
  \A d \in Vnode \cup {Root}, n \in Name : fNodes[d][n] # Null =>
    /\ Alive(fNodes[d][n]) /\ IdOf(fNodes[d][n]) # Null
    /\ Reachable(d)
    /\ \A e \in Vnode \cup {Root}, m \in Name :
         fNodes[e][m] = fNodes[d][n] => e = d /\ m = n

\* The references to v: that of the tree, or of the call that has it, ...
TreeRef(v) == Linked(v) \/ (lock \in Thread /\ HasTree(lock)
                            /\ thread[lock].vnode = v)

\* ... and that of the VFS, or of the call that has the entry.
VfsHas(i) == Ready(i) \/ (Busy(i) /\ HasVfs(entry[i].busy))
VfsRef(v) == IdOf(v) # Null /\ VfsHas(IdOf(v))

RefsExact ==
  \A v \in Vnode : Alive(v) =>
    fRef[v] = (IF TreeRef(v) THEN 1 ELSE 0) + (IF VfsRef(v) THEN 1 ELSE 0)

\* What has no reference is being destroyed, by one thread.
Doomed ==
  \A v \in Vnode : Alive(v) /\ fRef[v] = 0 =>
    \E t \in Thread : thread[t].todo # <<>> /\ thread[t].vnode = v

DoomedOnce ==
  \A t, u \in Thread :
    thread[t].todo # <<>> /\ thread[u].todo # <<>>
      /\ thread[t].vnode = thread[u].vnode => t = u

ConcInv ==
  /\ Types /\ \A t \in Thread : CallInv(t)
  /\ BusyOwned /\ EntriesLive /\ IdsExact /\ TreeOK
  /\ RefsExact /\ Doomed /\ DoomedOnce

-----------------------------------------------------------------------------
(* The stages.                                                             *)

PlanLength(s) == Len(PlanOf[s])

LEMMA PlansDiffer == \A s, r \in Stages : PlanOf[s] = PlanOf[r] => s = r
<1>1. /\ \A s \in {"publish", "putDrop", "unlock"} : PlanLength(s) = 1
      /\ \A s \in {"make", "putDelete", "lookup", "dots", "insert", "takeDelete", "mark"} :
           PlanLength(s) = 2
      /\ \A s \in {"put", "create", "take", "rmdirDelete"} : PlanLength(s) = 3
      /\ \A s \in {"bothDrop", "rmdir"} : PlanLength(s) = 4
      /\ PlanLength("bothDelete") = 5
      /\ PlanLength("both") = 6
      /\ PlanLength("idle") = 0
  BY DEF PlanOf, PlanLength
<1>2. \A s, r \in {"publish", "putDrop", "unlock"} : PlanOf[s] = PlanOf[r] => s = r
  BY DEF PlanOf
<1>3. \A s, r \in {"make", "putDelete", "lookup", "dots", "insert", "takeDelete", "mark"} :
        PlanOf[s] = PlanOf[r] => s = r
  BY DEF PlanOf
<1>4. \A s, r \in {"put", "create", "take", "rmdirDelete"} :
        PlanOf[s] = PlanOf[r] => s = r
  BY DEF PlanOf
<1>5. \A s, r \in {"bothDrop", "rmdir"} : PlanOf[s] = PlanOf[r] => s = r
  BY DEF PlanOf
<1>6. \A s, r \in Stages : PlanOf[s] = PlanOf[r] => PlanLength(s) = PlanLength(r)
  BY DEF PlanLength
<1> QED BY <1>1, <1>2, <1>3, <1>4, <1>5, <1>6 DEF Stages

LEMMA StageIs == \A s \in Stages : StageOf(PlanOf[s]) = s
BY PlansDiffer DEF StageOf

\* Sequences given by their elements, for any elements.
LEMMA SeqsOf ==
  ASSUME NEW S, NEW a \in S, NEW b \in S, NEW c \in S, NEW d \in S,
         NEW e \in S, NEW f \in S
  PROVE  /\ <<>> \in Seq(S) /\ <<a>> \in Seq(S) /\ <<a, b>> \in Seq(S)
         /\ <<a, b, c>> \in Seq(S)
         /\ <<a, b, c, d>> \in Seq(S)
         /\ <<a, b, c, d, e>> \in Seq(S)
         /\ <<a, b, c, d, e, f>> \in Seq(S)
OBVIOUS

LEMMA TailsOf ==
  ASSUME NEW a, NEW b, NEW c, NEW d, NEW e, NEW f
  PROVE  /\ Tail(<<a>>) = <<>> /\ Tail(<<a, b>>) = <<b>>
         /\ Tail(<<a, b, c>>) = <<b, c>>
         /\ Tail(<<a, b, c, d>>) = <<b, c, d>>
         /\ Tail(<<a, b, c, d, e>>) = <<b, c, d, e>>
         /\ Tail(<<a, b, c, d, e, f>>) = <<b, c, d, e, f>>
<1>0. Tail(<<a>>) = <<>> /\ Tail(<<a, b>>) = <<b>> /\ Tail(<<a, b, c>>) = <<b, c>>
  OBVIOUS
<1>1. Tail(<<a, b, c, d>>) = <<b, c, d>>
  OBVIOUS
<1>2. Tail(<<a, b, c, d, e>>) = <<b, c, d, e>>
  OBVIOUS
<1>3. Tail(<<a, b, c, d, e, f>>) = <<b, c, d, e, f>>
  OBVIOUS
<1> QED BY <1>0, <1>1, <1>2, <1>3

LEMMA Plans ==
  /\ PlanOf["idle"] = <<>>
  /\ PlanOf["make"] = <<"GetVnode", "publish">>
  /\ PlanOf["publish"] = <<"publish">>
  /\ PlanOf["put"] = <<"release", "delete", "drop">>
  /\ PlanOf["putDelete"] = <<"delete", "drop">>
  /\ PlanOf["putDrop"] = <<"drop">>
  /\ PlanOf["lookup"] = <<"get", "unlock">>
  /\ PlanOf["dots"] = <<"getDots", "unlock">>
  /\ PlanOf["unlock"] = <<"unlock">>
  /\ PlanOf["create"] = <<"get", "insert", "unlock">>
  /\ PlanOf["insert"] = <<"insert", "unlock">>
  /\ PlanOf["take"] = <<"release", "delete", "unlock">>
  /\ PlanOf["takeDelete"] = <<"delete", "unlock">>
  /\ PlanOf["both"] = <<"release", "delete", "drop", "release", "delete", "unlock">>
  /\ PlanOf["bothDelete"] = <<"delete", "drop", "release", "delete", "unlock">>
  /\ PlanOf["bothDrop"] = <<"drop", "release", "delete", "unlock">>
  /\ PlanOf["rmdir"] = <<"release", "delete", "mark", "unlock">>
  /\ PlanOf["rmdirDelete"] = <<"delete", "mark", "unlock">>
  /\ PlanOf["mark"] = <<"mark", "unlock">>
BY DEF PlanOf

LEMMA PlanTypes == \A s \in Stages : PlanOf[s] \in Seq(Steps)
<1>1. /\ "GetVnode" \in Steps /\ "publish" \in Steps /\ "get" \in Steps
      /\ "getDots" \in Steps
      /\ "insert" \in Steps /\ "release" \in Steps /\ "delete" \in Steps
      /\ "drop" \in Steps /\ "mark" \in Steps /\ "unlock" \in Steps
  BY DEF Steps
<1>2. \A s \in {"idle"} : PlanOf[s] \in Seq(Steps)
  <2>1. /\ <<>> \in Seq(Steps)
    BY <1>1, SeqsOf
  <2> QED BY <2>1, Plans
<1>3. \A s \in {"publish", "putDrop", "unlock"} : PlanOf[s] \in Seq(Steps)
  <2>1. /\ <<"publish">> \in Seq(Steps)
        /\ <<"drop">> \in Seq(Steps)
        /\ <<"unlock">> \in Seq(Steps)
    BY <1>1, SeqsOf
  <2> QED BY <2>1, Plans
<1>4. \A s \in {"make", "putDelete", "lookup", "dots", "insert", "takeDelete", "mark"} :
        PlanOf[s] \in Seq(Steps)
  <2>1. /\ <<"GetVnode", "publish">> \in Seq(Steps)
        /\ <<"delete", "drop">> \in Seq(Steps)
        /\ <<"get", "unlock">> \in Seq(Steps)
        /\ <<"getDots", "unlock">> \in Seq(Steps)
        /\ <<"insert", "unlock">> \in Seq(Steps)
        /\ <<"delete", "unlock">> \in Seq(Steps)
        /\ <<"mark", "unlock">> \in Seq(Steps)
    BY <1>1, SeqsOf
  <2> QED BY <2>1, Plans
<1>5. \A s \in {"put", "create", "take", "rmdirDelete"} : PlanOf[s] \in Seq(Steps)
  <2>1. /\ <<"release", "delete", "drop">> \in Seq(Steps)
        /\ <<"get", "insert", "unlock">> \in Seq(Steps)
        /\ <<"release", "delete", "unlock">> \in Seq(Steps)
        /\ <<"delete", "mark", "unlock">> \in Seq(Steps)
    BY <1>1, SeqsOf
  <2> QED BY <2>1, Plans
<1>6. \A s \in {"bothDrop", "rmdir"} : PlanOf[s] \in Seq(Steps)
  <2>1. /\ <<"drop", "release", "delete", "unlock">> \in Seq(Steps)
        /\ <<"release", "delete", "mark", "unlock">> \in Seq(Steps)
    BY <1>1, SeqsOf
  <2> QED BY <2>1, Plans
<1>7. \A s \in {"bothDelete"} : PlanOf[s] \in Seq(Steps)
  <2>1. /\ <<"delete", "drop", "release", "delete", "unlock">> \in Seq(Steps)
    BY <1>1, SeqsOf
  <2> QED BY <2>1, Plans
<1>8. \A s \in {"both"} : PlanOf[s] \in Seq(Steps)
  <2>1. /\ <<"release", "delete", "drop", "release", "delete", "unlock">> \in Seq(Steps)
    BY <1>1, SeqsOf
  <2> QED BY <2>1, Plans
<1> QED BY <1>2, <1>3, <1>4, <1>5, <1>6, <1>7, <1>8 DEF Stages

\* The stage after a step.
NextStage == [
  make |-> "publish", publish |-> "idle",
  put |-> "putDelete", putDelete |-> "putDrop", putDrop |-> "idle",
  lookup |-> "unlock", dots |-> "unlock", unlock |-> "idle", create |-> "insert",
  insert |-> "unlock", take |-> "takeDelete", takeDelete |-> "unlock",
  both |-> "bothDelete", bothDelete |-> "bothDrop", bothDrop |-> "take",
  rmdir |-> "rmdirDelete", rmdirDelete |-> "mark", mark |-> "unlock"]

LEMMA NextStages ==
  /\ NextStage["make"] = "publish" /\ NextStage["publish"] = "idle"
  /\ NextStage["put"] = "putDelete" /\ NextStage["putDelete"] = "putDrop"
  /\ NextStage["putDrop"] = "idle" /\ NextStage["lookup"] = "unlock"
  /\ NextStage["dots"] = "unlock"
  /\ NextStage["unlock"] = "idle" /\ NextStage["create"] = "insert"
  /\ NextStage["insert"] = "unlock" /\ NextStage["take"] = "takeDelete"
  /\ NextStage["takeDelete"] = "unlock" /\ NextStage["both"] = "bothDelete"
  /\ NextStage["bothDelete"] = "bothDrop" /\ NextStage["bothDrop"] = "take"
  /\ NextStage["rmdir"] = "rmdirDelete" /\ NextStage["rmdirDelete"] = "mark"
  /\ NextStage["mark"] = "unlock"
BY DEF NextStage

LEMMA StepStages ==
  \A s \in Stages : PlanOf[s] # <<>> =>
    /\ s # "idle"
    /\ Head(PlanOf[s]) = "GetVnode" => s = "make"
    /\ Head(PlanOf[s]) = "publish" => s = "publish"
    /\ Head(PlanOf[s]) = "get" => s \in {"lookup", "create"}
    /\ Head(PlanOf[s]) = "getDots" => s = "dots"
    /\ Head(PlanOf[s]) = "insert" => s = "insert"
    /\ Head(PlanOf[s]) = "release" => s \in {"put", "take", "both", "rmdir"}
    /\ Head(PlanOf[s]) = "delete" =>
         s \in {"putDelete", "takeDelete", "bothDelete", "rmdirDelete"}
    /\ Head(PlanOf[s]) = "drop" => s \in {"putDrop", "bothDrop"}
    /\ Head(PlanOf[s]) = "mark" => s = "mark"
    /\ Head(PlanOf[s]) = "unlock" => s = "unlock"
BY DEF Stages, PlanOf

Follows(s) ==
  NextStage[s] \in Stages /\ Tail(PlanOf[s]) = PlanOf[NextStage[s]]

LEMMA Tails == \A s \in Stages \ {"idle"} : Follows(s)
<1>1. \A s \in {"publish", "putDrop", "unlock"} : Follows(s)
  <2>1. /\ Tail(PlanOf["publish"]) = PlanOf["idle"]
        /\ Tail(PlanOf["putDrop"]) = PlanOf["idle"]
        /\ Tail(PlanOf["unlock"]) = PlanOf["idle"]
    BY Plans, TailsOf
  <2> QED BY <2>1, NextStages DEF Follows, Stages
<1>2. \A s \in {"make", "putDelete", "lookup", "dots", "insert", "takeDelete", "mark"} : Follows(s)
  <2>1. /\ Tail(PlanOf["make"]) = PlanOf["publish"]
        /\ Tail(PlanOf["putDelete"]) = PlanOf["putDrop"]
        /\ Tail(PlanOf["lookup"]) = PlanOf["unlock"]
        /\ Tail(PlanOf["dots"]) = PlanOf["unlock"]
        /\ Tail(PlanOf["insert"]) = PlanOf["unlock"]
        /\ Tail(PlanOf["takeDelete"]) = PlanOf["unlock"]
        /\ Tail(PlanOf["mark"]) = PlanOf["unlock"]
    BY Plans, TailsOf
  <2> QED BY <2>1, NextStages DEF Follows, Stages
<1>3. \A s \in {"put", "create", "take", "rmdirDelete"} : Follows(s)
  <2>1. /\ Tail(PlanOf["put"]) = PlanOf["putDelete"]
        /\ Tail(PlanOf["create"]) = PlanOf["insert"]
        /\ Tail(PlanOf["take"]) = PlanOf["takeDelete"]
        /\ Tail(PlanOf["rmdirDelete"]) = PlanOf["mark"]
    BY Plans, TailsOf
  <2> QED BY <2>1, NextStages DEF Follows, Stages
<1>4. \A s \in {"bothDrop", "rmdir"} : Follows(s)
  <2>1. /\ Tail(PlanOf["bothDrop"]) = PlanOf["take"]
        /\ Tail(PlanOf["rmdir"]) = PlanOf["rmdirDelete"]
    BY Plans, TailsOf
  <2> QED BY <2>1, NextStages DEF Follows, Stages
<1>5. \A s \in {"bothDelete"} : Follows(s)
  <2>1. /\ Tail(PlanOf["bothDelete"]) = PlanOf["bothDrop"]
    BY Plans, TailsOf
  <2> QED BY <2>1, NextStages DEF Follows, Stages
<1>6. \A s \in {"both"} : Follows(s)
  <2>1. /\ Tail(PlanOf["both"]) = PlanOf["bothDelete"]
    BY Plans, TailsOf
  <2> QED BY <2>1, NextStages DEF Follows, Stages
<1> QED BY <1>1, <1>2, <1>3, <1>4, <1>5, <1>6 DEF Stages

-----------------------------------------------------------------------------
(* Turns: thread t goes on with call c, in stage s.                        *)

Rec(plan, i, v, d, n, todo) ==
  [plan |-> plan, id |-> i, vnode |-> v, dir |-> d, name |-> n, todo |-> todo]

\* What a turn leaves to the other threads: the lock, what it protects, the
\* entries that are busy for them, the vnodes that are not being destroyed by t
\* and that those without a reference stay without one.
Moves(t, c, s) ==
  /\ c \in Calls /\ s \in Stages /\ c.plan = PlanOf[s] /\ (s = "idle" => c = Idle)
  /\ thread' = [thread EXCEPT ![t] = c]
  /\ lock' # lock => lock \in {t, Nobody} /\ lock' \in {t, Nobody}
  /\ lock \notin {t, Nobody} => fNodes' = fNodes /\ fIds' = fIds
  /\ \A i \in Id : Busy(i) /\ entry[i].busy # t =>
                     Busy(i)' /\ entry'[i].busy = entry[i].busy
  /\ \A v \in Vnode : Alive(v) =>
       /\ fRef[v] = 0 => fRef'[v] = 0
       /\ vn'[v] = vn[v] \/ (thread[t].todo # <<>> /\ v = thread[t].vnode)

LEMMA RecIs ==
  ASSUME NEW p, NEW i, NEW v, NEW d, NEW n, NEW k
  PROVE  LET c == Rec(p, i, v, d, n, k)
         IN  /\ c.plan = p /\ c.id = i /\ c.vnode = v /\ c.dir = d /\ c.name = n
             /\ c.todo = k
BY DEF Rec

LEMMA RecCalls ==
  ASSUME NEW s \in Stages, NEW i \in Id \cup {Null}, NEW v \in Vnode \cup {Null},
         NEW d \in Vnode \cup {Root, Null}, NEW n \in Name \cup {Null},
         NEW k \in Seq(Vnode)
  PROVE  Rec(PlanOf[s], i, v, d, n, k) \in Calls
BY PlanTypes DEF Rec, Calls

LEMMA IdleIs ==
  /\ Idle \in Calls /\ Idle.plan = PlanOf["idle"] /\ StageOf(Idle.plan) = "idle"
  /\ Idle.todo = <<>> /\ Idle.id = Null /\ Idle.vnode = Null /\ "idle" \in Stages
<1>1. "idle" \in Stages
  BY DEF Stages
<1>2. /\ Idle.plan = <<>> /\ Idle.todo = <<>> /\ Idle.id = Null /\ Idle.vnode = Null
      /\ Idle.dir = Null /\ Idle.name = Null
  BY DEF Idle
<1>3. Idle = Rec(PlanOf["idle"], Null, Null, Null, Null, <<>>)
  BY Plans DEF Idle, Rec
<1>4. <<>> \in Seq(Vnode)
  OBVIOUS
<1>5. Idle \in Calls
  BY <1>1, <1>3, <1>4, RecCalls
<1> QED BY <1>1, <1>2, <1>5, StageIs, Plans

LEMMA MovesFacts ==
  ASSUME Types, NEW t \in Thread, NEW c, NEW s, Moves(t, c, s)
  PROVE  /\ thread' \in [Thread -> Calls]
         /\ thread'[t] = c /\ Stage(t)' = s
         /\ HasTree(t)' <=> s \in TreeStages
         /\ HasVfs(t)' <=> s \in {"put", "both"} \/ (s = "publish" /\ c.vnode # Null)
         /\ \A u \in Thread \ {t} :
              /\ thread'[u] = thread[u] /\ Stage(u)' = Stage(u)
              /\ HasTree(u)' <=> HasTree(u)
              /\ HasVfs(u)' <=> HasVfs(u)
<1>1. thread' \in [Thread -> Calls] /\ thread'[t] = c
  BY DEF Moves, Types
<1>2. \A u \in Thread \ {t} : thread'[u] = thread[u]
  BY DEF Moves, Types
<1>3. Stage(t)' = s
  BY <1>1, StageIs DEF Moves, Stage
<1>4. \A u \in Thread \ {t} : Stage(u)' = Stage(u)
  BY <1>2 DEF Stage
<1>5. HasTree(t)' <=> s \in TreeStages
  BY <1>3 DEF HasTree
<1>6. HasVfs(t)' <=> s \in {"put", "both"} \/ (s = "publish" /\ c.vnode # Null)
  BY <1>1, <1>3 DEF HasVfs
<1>7. \A u \in Thread \ {t} : HasTree(u)' <=> HasTree(u)
  BY <1>4 DEF HasTree
<1>8. \A u \in Thread \ {t} : HasVfs(u)' <=> HasVfs(u)
  BY <1>2, <1>4 DEF HasVfs
<1> QED BY <1>1, <1>2, <1>3, <1>4, <1>5, <1>6, <1>7, <1>8

LEMMA WithPlan ==
  ASSUME NEW q \in Calls, NEW p
  PROVE  [q EXCEPT !.plan = p] = Rec(p, q.id, q.vnode, q.dir, q.name, q.todo)
BY DEF Rec, Calls

LEMMA AfterIs ==
  ASSUME Types, NEW t \in Thread, Planned(t), thread[t].plan # <<>>
  PROVE  LET s == NextStage[Stage(t)] IN
         /\ s \in Stages
         /\ s = "idle" => After(t) = [thread EXCEPT ![t] = Idle]
         /\ s # "idle" =>
              After(t) = [thread EXCEPT ![t] =
                            Rec(PlanOf[s], thread[t].id, thread[t].vnode,
                                thread[t].dir, thread[t].name, thread[t].todo)]
<1>1. PICK r : r = Stage(t)
  OBVIOUS
<1>2. r \in Stages \ {"idle"} /\ thread[t].plan = PlanOf[r] /\ thread[t] \in Calls
  BY <1>1, Plans DEF Planned, Types
<1>3. Follows(r)
  BY <1>2, Tails
<1>4. Tail(thread[t].plan) = <<>> <=> NextStage[r] = "idle"
  <2>1. PlanOf["idle"] = <<>> /\ "idle" \in Stages
    BY Plans, IdleIs
  <2> QED BY <1>2, <1>3, <2>1, PlansDiffer DEF Follows
<1>5. CASE NextStage[r] = "idle"
  BY <1>1, <1>3, <1>4, <1>5 DEF After, Follows
<1>6. CASE NextStage[r] # "idle"
  <2>1. PICK c : c = Rec(PlanOf[NextStage[r]], thread[t].id, thread[t].vnode,
                         thread[t].dir, thread[t].name, thread[t].todo)
    OBVIOUS
  <2>2. c = [thread[t] EXCEPT !.plan = Tail(thread[t].plan)]
    BY <1>2, <1>3, <2>1, WithPlan DEF Follows
  <2>3. After(t) = [thread EXCEPT ![t] = c]
    BY <1>4, <1>6, <2>2 DEF After
  <2> QED BY <1>1, <1>3, <1>6, <2>1, <2>3 DEF Follows
<1> QED BY <1>5, <1>6

\* The stage that a step is taken in.
LEMMA AtStage ==
  ASSUME NEW t, Planned(t)
  PROVE  /\ Doing(t, "GetVnode") => Stage(t) = "make"
         /\ Doing(t, "publish") => Stage(t) = "publish"
         /\ Doing(t, "get") => Stage(t) \in {"lookup", "create"}
         /\ Doing(t, "getDots") => Stage(t) = "dots"
         /\ Doing(t, "insert") => Stage(t) = "insert"
         /\ Doing(t, "release") => Stage(t) \in {"put", "take", "both", "rmdir"}
         /\ Doing(t, "delete") =>
              Stage(t) \in {"putDelete", "takeDelete", "bothDelete", "rmdirDelete"}
         /\ Doing(t, "drop") => Stage(t) \in {"putDrop", "bothDrop"}
         /\ Doing(t, "mark") => Stage(t) = "mark"
         /\ Doing(t, "unlock") => Stage(t) = "unlock"
         /\ Free(t) => Stage(t) = "idle"
<1>1. Free(t) => Stage(t) = "idle"
  BY IdleIs DEF Free, Stage
<1> QED BY <1>1, StepStages DEF Planned, Doing

-----------------------------------------------------------------------------
(* What a turn leaves as it is.                                            *)

\* Whoever has a reference is counted.
LEMMA Counted ==
  ASSUME ConcInv
  PROVE  /\ \A v \in Vnode : Alive(v) /\ Linked(v) => fRef[v] # 0
         /\ \A t \in Thread : HasTree(t) \/ HasVfs(t) =>
              /\ thread[t].vnode \in Vnode /\ Alive(thread[t].vnode)
              /\ fRef[thread[t].vnode] # 0
         /\ \A i \in Id : Ready(i) => fRef[entry[i].vnode] # 0
<1>1. \A v \in Vnode : Alive(v) /\ (TreeRef(v) \/ VfsRef(v)) => fRef[v] # 0
  BY DEF ConcInv, RefsExact
<1>2. \A v \in Vnode : Alive(v) /\ Linked(v) => fRef[v] # 0
  BY <1>1 DEF TreeRef
<1>3. \A t \in Thread : HasTree(t) => TreeRef(thread[t].vnode)
  BY DEF ConcInv, CallInv, LockHeld, HasTree, TreeRef, TreeStages, LockStages
<1>4. \A t \in Thread : HasTree(t) =>
        /\ thread[t].vnode \in Vnode /\ Alive(thread[t].vnode)
        /\ fRef[thread[t].vnode] # 0
  BY <1>1, <1>3 DEF ConcInv, CallInv, TreeHeld
<1>5. \A t \in Thread : HasVfs(t) =>
        /\ thread[t].vnode \in Vnode /\ Alive(thread[t].vnode)
        /\ fRef[thread[t].vnode] # 0
  <2> SUFFICES ASSUME NEW t \in Thread, HasVfs(t)
               PROVE  /\ thread[t].vnode \in Vnode /\ Alive(thread[t].vnode)
                      /\ fRef[thread[t].vnode] # 0
    OBVIOUS
  <2>1. VfsHeld(t) /\ EntryHeld(t)
    BY DEF ConcInv, CallInv
  <2>2. Stage(t) \in BusyStages
    BY DEF HasVfs, BusyStages
  <2>3. thread[t].id \in Id /\ Known(thread[t].id) /\ entry[thread[t].id].busy = t
    BY <2>1, <2>2 DEF EntryHeld
  <2>4. Busy(thread[t].id)
    BY <2>3, ConcurrencyAssumption DEF Busy
  <2>5. VfsHas(thread[t].id)
    BY <2>3, <2>4 DEF VfsHas
  <2>6. /\ thread[t].vnode \in Vnode /\ Alive(thread[t].vnode)
        /\ IdOf(thread[t].vnode) = thread[t].id
    BY <2>1 DEF VfsHeld
  <2>7. VfsRef(thread[t].vnode)
    BY <2>3, <2>5, <2>6, ConcurrencyAssumption DEF VfsRef
  <2> QED BY <1>1, <2>6, <2>7
<1>6. \A i \in Id : Ready(i) => fRef[entry[i].vnode] # 0
  <2> SUFFICES ASSUME NEW i \in Id, Ready(i) PROVE fRef[entry[i].vnode] # 0
    OBVIOUS
  <2>1. /\ entry[i].vnode \in Vnode /\ Alive(entry[i].vnode)
        /\ IdOf(entry[i].vnode) = i
    BY DEF ConcInv, EntriesLive
  <2>2. VfsRef(entry[i].vnode)
    BY <2>1, ConcurrencyAssumption DEF VfsRef, VfsHas
  <2> QED BY <1>1, <2>1, <2>2
<1> QED BY <1>2, <1>4, <1>5, <1>6

LEMMA Linking ==
  ASSUME ConcInv, NEW v, Linked(v), v # Null
  PROVE  Alive(v)
BY DEF ConcInv, TreeOK, Linked

LEMMA OthersKeep ==
  ASSUME ConcInv, NEW t \in Thread, NEW c, NEW s, Moves(t, c, s)
  PROVE  \A u \in Thread \ {t} : CallInv(u)'
<1> SUFFICES ASSUME NEW u \in Thread \ {t} PROVE CallInv(u)'
  OBVIOUS
<1>1. /\ thread'[u] = thread[u] /\ Stage(u)' = Stage(u)
      /\ HasTree(u)' <=> HasTree(u)
      /\ HasVfs(u)' <=> HasVfs(u)
  BY MovesFacts DEF ConcInv
<1>2. CallInv(u)
  BY DEF ConcInv
<1>3. lock' = u <=> lock = u
  BY ConcurrencyAssumption DEF Moves
<1>4. ASSUME NEW v \in Vnode, Alive(v),
             thread[t].todo = <<>> \/ v # thread[t].vnode
      PROVE  Alive(v)' /\ vn'[v] = vn[v] /\ IdOf(v)' = IdOf(v) /\ Kind(v)' = Kind(v)
  BY <1>4 DEF Moves, Alive, IdOf, Kind
<1>5. ASSUME NEW v \in Vnode, Alive(v), fRef[v] # 0
      PROVE  Alive(v)' /\ IdOf(v)' = IdOf(v) /\ Kind(v)' = Kind(v)
  BY <1>4, <1>5 DEF ConcInv, CallInv, Destroys
<1>6. HasTree(u) \/ HasVfs(u) =>
        /\ thread[u].vnode \in Vnode /\ Alive(thread[u].vnode)
        /\ Alive(thread[u].vnode)' /\ IdOf(thread[u].vnode)' = IdOf(thread[u].vnode)
  BY <1>1, <1>5, Counted
<1>7. Stage(u) \in LockStages => fNodes' = fNodes /\ fIds' = fIds
  BY <1>2, ConcurrencyAssumption DEF CallInv, LockHeld, Moves
<1>8. Stage(u) \in LockStages => \A v : Linked(v)' <=> Linked(v)
  BY <1>7 DEF Linked
<1>9. Planned(u)'
  BY <1>1, <1>2 DEF CallInv, Planned
<1>10. LockHeld(u)'
  BY <1>1, <1>2, <1>3 DEF CallInv, LockHeld
<1>11. EntryHeld(u)'
  BY <1>1, <1>2, ConcurrencyAssumption DEF CallInv, EntryHeld, Moves, Busy, Known
<1>12. Destroys(u)'
  <2> SUFFICES ASSUME thread[u].todo # <<>> PROVE Destroys(u)'
    BY <1>1 DEF Destroys
  <2>1. /\ Stage(u) \in DeleteStages
        /\ thread[u].vnode \in Vnode /\ thread[u].todo = <<thread[u].vnode>>
        /\ Alive(thread[u].vnode) /\ fRef[thread[u].vnode] = 0
        /\ Stage(u) = "putDelete" => IdOf(thread[u].vnode) = thread[u].id
    BY <1>2 DEF CallInv, Destroys
  <2>2. thread[t].todo = <<>> \/ thread[u].vnode # thread[t].vnode
    BY DEF ConcInv, DoomedOnce
  <2>3. /\ Alive(thread[u].vnode)'
        /\ IdOf(thread[u].vnode)' = IdOf(thread[u].vnode)
    BY <1>1, <1>4, <2>1, <2>2
  <2>4. fRef'[thread[u].vnode] = 0
    BY <2>1 DEF Moves
  <2> QED BY <1>1, <2>1, <2>3, <2>4 DEF Destroys
<1>13. TreeHeld(u)'
  <2> SUFFICES ASSUME HasTree(u) PROVE TreeHeld(u)'
    BY <1>1 DEF TreeHeld
  <2>1. Stage(u) \in LockStages
    BY DEF HasTree, TreeStages, LockStages
  <2>2. ~Linked(thread[u].vnode)
    BY <1>2 DEF CallInv, TreeHeld
  <2> QED BY <1>1, <1>6, <1>8, <2>1, <2>2 DEF TreeHeld
<1>14. VfsHeld(u)'
  BY <1>1, <1>2, <1>6 DEF CallInv, VfsHeld
<1>15. Creates(u)'
  <2> SUFFICES ASSUME Stage(u) \in {"create", "insert"} PROVE Creates(u)'
    BY <1>1 DEF Creates
  <2>1. HasTree(u) /\ Stage(u) \in LockStages
    BY DEF HasTree, TreeStages, LockStages
  <2>2. /\ thread[u].id \in Id /\ IdOf(thread[u].vnode) = thread[u].id
        /\ thread[u].name \in Name /\ Reachable(thread[u].dir)
        /\ fNodes[thread[u].dir][thread[u].name] = Null
    BY <1>2 DEF CallInv, Creates
  <2>3. Reachable(thread[u].dir)'
    <3>1. CASE thread[u].dir = Root
      BY <1>1, <3>1 DEF Reachable
    <3>2. CASE thread[u].dir # Root
      <4>1. /\ thread[u].dir \in Vnode /\ Alive(thread[u].dir)
            /\ Kind(thread[u].dir) = "dir" /\ Linked(thread[u].dir)
        BY <2>2, <3>2 DEF Reachable
      <4>2. fRef[thread[u].dir] # 0
        BY <4>1, Counted
      <4> QED BY <1>1, <1>5, <1>8, <2>1, <4>1, <4>2 DEF Reachable
    <3> QED BY <3>1, <3>2
  <2> QED BY <1>1, <1>6, <1>7, <2>1, <2>2, <2>3 DEF Creates
<1>16. Looks(u)'
  <2> SUFFICES ASSUME Stage(u) \in {"lookup", "dots"} PROVE Looks(u)'
    BY <1>1 DEF Looks
  <2>1. Stage(u) \in LockStages
    BY DEF LockStages
  <2> QED BY <1>1, <1>2, <1>7, <1>8, <2>1 DEF CallInv, Looks
<1> QED BY <1>9, <1>10, <1>11, <1>12, <1>13, <1>14, <1>15, <1>16 DEF CallInv

\* The destructions in progress, after a turn of a thread in none.
LEMMA DoomsKeep ==
  ASSUME ConcInv, NEW t \in Thread, NEW c, NEW s, Moves(t, c, s),
         thread[t].todo = <<>>,
         \A v \in Vnode : Alive(v)' /\ fRef'[v] = 0 =>
           (Alive(v) /\ fRef[v] = 0) \/ (c.todo # <<>> /\ c.vnode = v),
         c.todo # <<>> =>
           c.vnode \in Vnode /\ Alive(c.vnode) /\ fRef[c.vnode] # 0
  PROVE  Doomed' /\ DoomedOnce'
<1>1. /\ thread'[t] = c
      /\ \A u \in Thread \ {t} : thread'[u] = thread[u]
  BY MovesFacts DEF ConcInv
<1>2. Doomed'
  <2> SUFFICES ASSUME NEW v \in Vnode, Alive(v)', fRef'[v] = 0
               PROVE  \E u \in Thread : thread'[u].todo # <<>> /\ thread'[u].vnode = v
    BY DEF Doomed
  <2>1. CASE Alive(v) /\ fRef[v] = 0
    <3>1. PICK u \in Thread : thread[u].todo # <<>> /\ thread[u].vnode = v
      BY <2>1 DEF ConcInv, Doomed
    <3> QED BY <1>1, <3>1
  <2>2. CASE c.todo # <<>> /\ c.vnode = v
    BY <1>1, <2>2
  <2> QED BY <2>1, <2>2
<1>3. DoomedOnce'
  <2>1. \A u \in Thread : thread[u].todo # <<>> => fRef[thread[u].vnode] = 0
    BY DEF ConcInv, CallInv, Destroys
  <2> QED BY <1>1, <2>1 DEF ConcInv, DoomedOnce
<1> QED BY <1>2, <1>3

-----------------------------------------------------------------------------
(* The parts of the invariant, after a turn.                               *)

\* What a turn of t does to the trees and the numbers when it leaves them.
LEMMA ObjectsStay ==
  ASSUME ConcInv, vn' = vn, fNodes' = fNodes, fIds' = fIds
  PROVE  /\ IdsExact' /\ TreeOK'
         /\ \A v : Linked(v)' <=> Linked(v)
<1>1. \A v : Linked(v)' <=> Linked(v)
  BY DEF Linked
<1>2. IdsExact'
  BY DEF ConcInv, IdsExact, Alive, IdOf
<1>3. \A d : Reachable(d)' <=> Reachable(d)
  BY <1>1 DEF Reachable, Alive, Kind
<1>4. TreeOK'
  BY <1>3 DEF ConcInv, TreeOK, Alive, IdOf
<1> QED BY <1>1, <1>2, <1>4

LEMMA EntryIs ==
  ASSUME NEW v \in Vnode \cup {Null}, NEW n \in Nat, NEW r \in BOOLEAN,
         NEW b \in Thread \cup {Nobody}
  PROVE  LET e == Entry(v, n, r, b)
         IN  /\ e \in Entries
             /\ e.vnode = v /\ e.ref = n /\ e.removed = r /\ e.busy = b
BY DEF Entry, Entries

LEMMA EntryNotAbsent == \A e \in Entries : e # Absent
BY ConcurrencyAssumption DEF Entries

\* The trees' references, that of the call of t apart.
OtherTree(t, v) == \E u \in Thread \ {t} : HasTree(u) /\ thread[u].vnode = v

LEMMA TreeRefs ==
  ASSUME ConcInv, NEW t \in Thread, NEW c, NEW s, Moves(t, c, s), LockHeld(t)'
  PROVE  /\ \A v : TreeRef(v) <=> \/ Linked(v)
                                  \/ HasTree(t) /\ thread[t].vnode = v
                                  \/ OtherTree(t, v)
         /\ \A v : TreeRef(v)' <=> \/ Linked(v)'
                                   \/ s \in TreeStages /\ c.vnode = v
                                   \/ OtherTree(t, v)
         /\ lock \in {t, Nobody} => \A v : ~OtherTree(t, v)
<1>1. \A u \in Thread : HasTree(u) => lock = u
  BY DEF ConcInv, CallInv, LockHeld, HasTree, TreeStages, LockStages
<1>2. \A u \in Thread : CallInv(u)' => (HasTree(u)' => lock' = u)
  BY DEF CallInv, LockHeld, HasTree, TreeStages, LockStages
<1>3. HasTree(t)' => lock' = t
  BY DEF LockHeld, HasTree, TreeStages, LockStages
<1>4. \A u \in Thread : HasTree(u)' => lock' = u
  BY <1>2, <1>3, OthersKeep
<1>5. thread'[t] = c /\ (HasTree(t)' <=> s \in TreeStages)
  BY MovesFacts DEF ConcInv
<1>6. \A u \in Thread \ {t} :
        thread'[u] = thread[u] /\ (HasTree(u)' <=> HasTree(u))
  BY MovesFacts DEF ConcInv
<1>7. \A v : TreeRef(v) <=>
               Linked(v) \/ (\E u \in Thread : HasTree(u) /\ thread[u].vnode = v)
  BY <1>1 DEF TreeRef
<1>8. \A v : TreeRef(v)' <=>
               Linked(v)' \/ (\E u \in Thread : HasTree(u)' /\ thread'[u].vnode = v)
  BY <1>4 DEF TreeRef
<1>9. \A v : TreeRef(v) <=> \/ Linked(v)
                            \/ HasTree(t) /\ thread[t].vnode = v
                            \/ OtherTree(t, v)
  BY <1>7 DEF OtherTree
<1>10. \A v : TreeRef(v)' <=> \/ Linked(v)'
                              \/ s \in TreeStages /\ c.vnode = v
                              \/ OtherTree(t, v)
  BY <1>5, <1>6, <1>8 DEF OtherTree
<1>11. lock \in {t, Nobody} => \A v : ~OtherTree(t, v)
  BY <1>1, ConcurrencyAssumption DEF OtherTree
<1> QED BY <1>9, <1>10, <1>11

\* Entry j is set to e.
Sets(j, e) ==
  /\ entry' \in [Id -> Entries \cup {Absent}]
  /\ entry'[j] = e
  /\ \A i \in Id \ {j} : entry'[i] = entry[i]

LEMMA SetsIs ==
  ASSUME ConcInv, NEW j \in Id, NEW e \in Entries \cup {Absent},
         entry' = [entry EXCEPT ![j] = e]
  PROVE  Sets(j, e)
BY DEF Sets, ConcInv, Types

\* A turn that sets one entry, which is not busy for another thread.
LEMMA EntrySet ==
  ASSUME ConcInv, NEW t \in Thread, NEW c, NEW s, Moves(t, c, s),
         NEW j \in Id, NEW e \in Entries \cup {Absent},
         Sets(j, e),
         Stage(t) \in BusyStages => thread[t].id = j,
         e # Absent /\ e.busy # Nobody =>
           e.busy = t /\ s \in BusyStages /\ c.id = j
  PROVE  /\ BusyOwned'
         /\ \A i \in Id \ {j} : VfsHas(i)' <=> VfsHas(i)
         /\ VfsHas(j)' <=>
              e # Absent /\ (e.busy = Nobody \/ HasVfs(t)')
<1>1. entry'[j] = e /\ \A i \in Id \ {j} : entry'[i] = entry[i]
  BY DEF Sets
<1>2. /\ thread'[t] = c /\ Stage(t)' = s
      /\ \A u \in Thread \ {t} :
           thread'[u] = thread[u] /\ Stage(u)' = Stage(u) /\ (HasVfs(u)' <=> HasVfs(u))
  BY MovesFacts DEF ConcInv
<1>3. ASSUME NEW i \in Id \ {j}, Busy(i)
      PROVE  /\ entry[i].busy \in Thread \ {t} /\ Stage(entry[i].busy) \in BusyStages
             /\ thread[entry[i].busy].id = i
  BY <1>3 DEF ConcInv, BusyOwned
<1>4. \A i \in Id \ {j} : (Busy(i)' <=> Busy(i)) /\ (Ready(i)' <=> Ready(i))
  BY <1>1 DEF Busy, Ready, Known
<1>5. BusyOwned'
  <2> SUFFICES ASSUME NEW i \in Id, Busy(i)'
               PROVE  /\ entry'[i].busy \in Thread /\ Stage(entry[i].busy)' \in BusyStages
                      /\ thread'[entry'[i].busy].id = i
    BY DEF BusyOwned
  <2>1. CASE i = j
    <3>1. e # Absent /\ e.busy # Nobody
      BY <1>1, <2>1 DEF Busy, Known
    <3>2. entry'[i].busy = t
      BY <1>1, <2>1, <3>1
    <3>3. Stage(entry[i].busy)' = s
      BY <1>2, <3>2 DEF Stage
    <3> QED BY <1>2, <2>1, <3>1, <3>2, <3>3
  <2>2. CASE i # j
    <3>1. PICK b \in Thread \ {t} : /\ b = entry[i].busy /\ b = entry'[i].busy
                                    /\ Stage(b) \in BusyStages /\ thread[b].id = i
      BY <1>1, <1>3, <1>4, <2>2
    <3>2. Stage(entry[i].busy)' = Stage(b)
      BY <1>2, <3>1 DEF Stage
    <3> QED BY <1>2, <3>1, <3>2
  <2> QED BY <2>1, <2>2
<1>6. ASSUME NEW i \in Id \ {j} PROVE VfsHas(i)' <=> VfsHas(i)
  <2>1. CASE Busy(i)
    <3>1. PICK b \in Thread \ {t} : b = entry[i].busy /\ b = entry'[i].busy
      BY <1>1, <1>3, <2>1
    <3>2. HasVfs(entry[i].busy)' <=> HasVfs(b)
      BY <1>2, <3>1 DEF HasVfs, Stage
    <3> QED BY <1>4, <2>1, <3>1, <3>2 DEF VfsHas
  <2> QED BY <1>4, <2>1 DEF VfsHas
<1>7. VfsHas(j)' <=> e # Absent /\ (e.busy = Nobody \/ HasVfs(t)')
  <2>1. CASE e # Absent /\ e.busy # Nobody
    <3>1. HasVfs(entry[j].busy)' <=> HasVfs(t)'
      BY <1>1, <2>1 DEF HasVfs, Stage
    <3> QED BY <1>1, <2>1, <3>1 DEF VfsHas, Ready, Busy, Known
  <2>2. CASE ~(e # Absent /\ e.busy # Nobody)
    BY <1>1, <2>2 DEF VfsHas, Ready, Busy, Known
  <2> QED BY <2>1, <2>2
<1> QED BY <1>5, <1>6, <1>7

\* The counts and the marks of entries may change.
SameEntries ==
  \A i \in Id :
    /\ Known(i)' <=> Known(i)
    /\ Known(i) => entry'[i].busy = entry[i].busy /\ entry'[i].vnode = entry[i].vnode

\* A turn that leaves the entries; those busy for t stay so.
LEMMA EntriesStay ==
  ASSUME ConcInv, NEW t \in Thread, NEW c, NEW s, Moves(t, c, s), SameEntries,
         Stage(t) \in BusyStages => s \in BusyStages /\ c.id = thread[t].id
  PROVE  /\ BusyOwned'
         /\ \A i \in Id :
              VfsHas(i)' <=> IF Busy(i) /\ entry[i].busy = t THEN HasVfs(t)'
                             ELSE VfsHas(i)
<1>1. /\ thread'[t] = c /\ Stage(t)' = s
      /\ \A u \in Thread \ {t} :
           thread'[u] = thread[u] /\ Stage(u)' = Stage(u) /\ (HasVfs(u)' <=> HasVfs(u))
  BY MovesFacts DEF ConcInv
<1>2. \A i \in Id :
        /\ (Busy(i)' <=> Busy(i)) /\ (Ready(i)' <=> Ready(i))
        /\ Busy(i) => entry'[i].busy = entry[i].busy
  BY DEF Busy, Ready, SameEntries
<1>3. \A i \in Id : Busy(i) =>
        /\ entry[i].busy \in Thread /\ Stage(entry[i].busy) \in BusyStages
        /\ thread[entry[i].busy].id = i
  BY DEF ConcInv, BusyOwned
<1>4. BusyOwned'
  <2> SUFFICES ASSUME NEW i \in Id, Busy(i)
               PROVE  /\ entry'[i].busy \in Thread
                      /\ Stage(entry[i].busy)' \in BusyStages
                      /\ thread'[entry'[i].busy].id = i
    BY <1>2 DEF BusyOwned
  <2>1. PICK b \in Thread : b = entry[i].busy /\ b = entry'[i].busy
                            /\ Stage(b) \in BusyStages /\ thread[b].id = i
    BY <1>2, <1>3
  <2>2. Stage(entry[i].busy)' = StageOf(thread'[b].plan)
    BY <2>1 DEF Stage
  <2>3. CASE b = t
    BY <1>1, <2>1, <2>2, <2>3 DEF Stage
  <2>4. CASE b # t
    BY <1>1, <2>1, <2>2, <2>4 DEF Stage
  <2> QED BY <2>3, <2>4
<1>5. ASSUME NEW i \in Id
      PROVE  VfsHas(i)' <=> IF Busy(i) /\ entry[i].busy = t THEN HasVfs(t)'
                            ELSE VfsHas(i)
  <2>1. CASE Busy(i)
    <3>1. PICK b \in Thread : b = entry[i].busy /\ b = entry'[i].busy
      BY <1>2, <1>3, <2>1
    <3>2. HasVfs(entry[i].busy)' <=> HasVfs(b)'
      BY <3>1 DEF HasVfs, Stage
    <3>3. ~Ready(i)
      BY <2>1 DEF Busy, Ready
    <3>4. VfsHas(i)' <=> HasVfs(b)'
      BY <1>2, <2>1, <3>2, <3>3 DEF VfsHas
    <3>5. VfsHas(i) <=> HasVfs(b)
      BY <2>1, <3>1, <3>3 DEF VfsHas
    <3> QED BY <1>1, <2>1, <3>1, <3>4, <3>5
  <2>2. CASE ~Busy(i)
    BY <1>2, <2>2 DEF VfsHas
  <2> QED BY <2>1, <2>2
<1> QED BY <1>4, <1>5

LEMMA EntriesLiveStay ==
  ASSUME ConcInv, SameEntries,
         \A v \in Vnode : Alive(v) /\ fRef[v] # 0 => vn'[v] = vn[v]
  PROVE  EntriesLive'
<1>1. \A i \in Id : Ready(i)' => Ready(i) /\ entry'[i].vnode = entry[i].vnode
  BY DEF SameEntries, Ready
<1> QED BY <1>1, Counted DEF ConcInv, EntriesLive, Alive, IdOf

LEMMA IdleCall ==
  ASSUME ConcInv, NEW t \in Thread, Moves(t, Idle, "idle"), lock' # t
  PROVE  CallInv(t)'
<1>1. thread'[t] = Idle /\ Stage(t)' = "idle"
  BY MovesFacts DEF ConcInv
<1>2. Planned(t)'
  BY <1>1, IdleIs DEF Planned
<1>3. LockHeld(t)'
  BY <1>1 DEF LockHeld, LockStages
<1>4. EntryHeld(t)' /\ Destroys(t)'
  BY <1>1, IdleIs DEF EntryHeld, Destroys, BusyStages
<1>5. TreeHeld(t)' /\ VfsHeld(t)'
  BY <1>1 DEF TreeHeld, VfsHeld, HasTree, HasVfs, TreeStages
<1>6. Creates(t)' /\ Looks(t)'
  BY <1>1 DEF Creates, Looks
<1> QED BY <1>2, <1>3, <1>4, <1>5, <1>6 DEF CallInv

\* The counts, after a turn that leaves objects as they are.
LEMMA RefsStay ==
  ASSUME ConcInv, vn' = vn, fRef' = fRef,
         \A v \in Vnode : TreeRef(v)' <=> TreeRef(v),
         \A i \in Id : VfsHas(i)' <=> VfsHas(i)
  PROVE  RefsExact'
<1>1. \A v \in Vnode : Alive(v) /\ IdOf(v) # Null => IdOf(v) \in Id
  BY DEF ConcInv, Types, TypeOK, Objects, Alive, IdOf
<1>2. \A v \in Vnode : Alive(v) => (VfsRef(v)' <=> VfsRef(v))
  BY <1>1 DEF VfsRef, IdOf, VfsHas
<1> QED BY <1>2 DEF ConcInv, RefsExact, Alive

-----------------------------------------------------------------------------
(* Turns that leave the objects as they are.                               *)

LEMMA StayStep ==
  ASSUME ConcInv, NEW t \in Thread, NEW c, NEW s, Moves(t, c, s),
         UNCHANGED objects, thread[t].todo = <<>>, c.todo = <<>>,
         entry' \in [Id -> Entries \cup {Absent}], lock' \in Thread \cup {Nobody},
         owed' \in [Id -> Nat],
         CallInv(t)', BusyOwned', EntriesLive',
         s \in TreeStages <=> HasTree(t),
         HasTree(t) => c.vnode = thread[t].vnode,
         \A i \in Id : VfsHas(i)' <=> VfsHas(i)
  PROVE  ConcInv'
<1>1. vn' = vn /\ fRef' = fRef /\ fNodes' = fNodes /\ fIds' = fIds
  BY DEF objects
<1>2. Types'
  <2>1. thread' \in [Thread -> Calls]
    BY MovesFacts DEF ConcInv
  <2> QED BY <1>1, <2>1 DEF ConcInv, Types, TypeOK
<1>3. \A u \in Thread : CallInv(u)'
  BY OthersKeep
<1>4. IdsExact' /\ TreeOK' /\ \A v : Linked(v)' <=> Linked(v)
  BY <1>1, ObjectsStay
<1>5. \A v : TreeRef(v)' <=> TreeRef(v)
  <2>1. LockHeld(t)'
    BY DEF CallInv
  <2> QED BY <1>4, <2>1, TreeRefs
<1>6. RefsExact'
  BY <1>1, <1>5, RefsStay
<1>7. Doomed' /\ DoomedOnce'
  <2>1. \A v \in Vnode : Alive(v)' /\ fRef'[v] = 0 => Alive(v) /\ fRef[v] = 0
    BY <1>1 DEF Alive
  <2> QED BY <2>1, DoomsKeep
<1> QED BY <1>2, <1>3, <1>4, <1>6, <1>7 DEF ConcInv

\* Turns that change no object and only entries that are nobody else's.
LEMMA QuietMoves ==
  ASSUME ConcInv, NEW t \in Thread, NEW c \in Calls, NEW s \in Stages,
         c.plan = PlanOf[s], s = "idle" => c = Idle,
         thread' = [thread EXCEPT ![t] = c], UNCHANGED objects,
         lock' # lock => lock \in {t, Nobody} /\ lock' \in {t, Nobody},
         \A i \in Id : Busy(i) /\ entry[i].busy # t =>
                         Busy(i)' /\ entry'[i].busy = entry[i].busy
  PROVE  Moves(t, c, s)
BY DEF Moves, objects

LEMMA IdleTodo ==
  ASSUME ConcInv, NEW t \in Thread, Stage(t) \notin DeleteStages
  PROVE  thread[t].todo = <<>>
BY DEF ConcInv, CallInv, Destroys

LEMMA UnlockStep ==
  ASSUME ConcInv, NEW t \in Thread, Unlock(t)
  PROVE  ConcInv'
<1>1. /\ Stage(t) = "unlock" /\ lock' = Nobody /\ thread' = After(t)
      /\ thread[t].plan # <<>>
      /\ UNCHANGED <<objects, entry, owed>>
  BY AtStage DEF Unlock, ConcInv, CallInv, Doing
<1>2. lock = t
  BY <1>1 DEF ConcInv, CallInv, LockHeld, LockStages
<1>3. thread' = [thread EXCEPT ![t] = Idle]
  BY <1>1, AfterIs, NextStages DEF ConcInv, CallInv
<1>4. Moves(t, Idle, "idle")
  BY <1>1, <1>2, <1>3, IdleIs, QuietMoves DEF Busy, Known
<1>5. CallInv(t)'
  BY <1>1, <1>4, IdleCall, ConcurrencyAssumption
<1>6. BusyOwned' /\ \A i \in Id : VfsHas(i)' <=> VfsHas(i)
  <2>1. ASSUME NEW i \in Id, Busy(i), entry[i].busy = t PROVE FALSE
    BY <1>1, <2>1 DEF ConcInv, BusyOwned, BusyStages
  <2>2. SameEntries
    BY <1>1 DEF SameEntries, Known
  <2> QED BY <1>1, <1>4, <2>1, <2>2, EntriesStay DEF BusyStages
<1>7. EntriesLive'
  BY <1>1 DEF ConcInv, EntriesLive, Ready, Known, Alive, IdOf, objects
<1>8. ~HasTree(t) /\ thread[t].todo = <<>>
  BY <1>1, IdleTodo DEF HasTree, TreeStages, DeleteStages
<1>9. /\ entry' \in [Id -> Entries \cup {Absent}] /\ lock' \in Thread \cup {Nobody}
      /\ owed' \in [Id -> Nat]
  BY <1>1 DEF ConcInv, Types, TypeOK
<1>10. "idle" \notin TreeStages
  BY DEF TreeStages
<1> QED BY <1>1, <1>4, <1>5, <1>6, <1>7, <1>8, <1>9, <1>10, IdleIs, StayStep

\* The invariant of the call that t goes on with.
LEMMA CallAt ==
  ASSUME ConcInv, NEW t \in Thread, NEW c, NEW s, Moves(t, c, s),
         s \in LockStages <=> lock' = t,
         s \in BusyStages => c.id \in Id /\ Known(c.id)' /\ entry'[c.id].busy = t,
         c.todo # <<>> =>
           /\ s \in DeleteStages
           /\ c.vnode \in Vnode /\ c.todo = <<c.vnode>>
           /\ Alive(c.vnode)' /\ fRef'[c.vnode] = 0
           /\ s = "putDelete" => IdOf(c.vnode)' = c.id,
         s \in TreeStages =>
           c.vnode \in Vnode /\ Alive(c.vnode)' /\ ~Linked(c.vnode)',
         s \in {"put", "both"} \/ (s = "publish" /\ c.vnode # Null) =>
           c.vnode \in Vnode /\ Alive(c.vnode)' /\ IdOf(c.vnode)' = c.id,
         s \in {"create", "insert"} =>
           /\ c.id \in Id /\ IdOf(c.vnode)' = c.id
           /\ c.name \in Name /\ Reachable(c.dir)' /\ fNodes'[c.dir][c.name] = Null,
         s \in {"lookup", "dots"} => c.id \in Id,
         s = "lookup" => fIds'[c.id] \in Vnode /\ Linked(fIds[c.id])'
  PROVE  CallInv(t)'
<1>1. /\ thread'[t] = c /\ Stage(t)' = s
      /\ HasTree(t)' <=> s \in TreeStages
      /\ HasVfs(t)' <=> s \in {"put", "both"} \/ (s = "publish" /\ c.vnode # Null)
  BY MovesFacts DEF ConcInv
<1>2. Planned(t)'
  BY <1>1 DEF Planned, Moves
<1>3. LockHeld(t)'
  BY <1>1 DEF LockHeld
<1>4. EntryHeld(t)'
  BY <1>1 DEF EntryHeld, Known
<1>5. Destroys(t)'
  BY <1>1 DEF Destroys, Alive, IdOf
<1>6. TreeHeld(t)'
  BY <1>1 DEF TreeHeld, Alive, Linked
<1>7. VfsHeld(t)'
  BY <1>1 DEF VfsHeld, Alive, IdOf
<1>8. Creates(t)'
  BY <1>1 DEF Creates, Reachable, IdOf, Alive, Kind, Linked
<1>9. Looks(t)'
  BY <1>1 DEF Looks, Linked
<1> QED BY <1>2, <1>3, <1>4, <1>5, <1>6, <1>7, <1>8, <1>9 DEF CallInv

LEMMA DeleteEndsStep ==
  ASSUME ConcInv, NEW t \in Thread, DeleteEnds(t)
  PROVE  ConcInv'
<1>1. /\ Stage(t) \in {"putDelete", "takeDelete", "bothDelete", "rmdirDelete"}
      /\ thread[t].todo = <<>> /\ thread[t].plan # <<>> /\ thread' = After(t)
      /\ UNCHANGED <<objects, entry, lock, owed>>
  BY AtStage DEF DeleteEnds, ConcInv, CallInv, Doing
<1>2. PICK s : s = NextStage[Stage(t)]
  OBVIOUS
<1>3. /\ s \in {"putDrop", "unlock", "bothDrop", "mark"}
      /\ s \in Stages
      /\ s \in LockStages <=> Stage(t) \in LockStages
      /\ s \in BusyStages <=> Stage(t) \in BusyStages
      /\ s = "bothDrop" <=> Stage(t) = "bothDelete"
  BY <1>1, <1>2, NextStages DEF Stages, LockStages, BusyStages
<1>4. PICK c : c = Rec(PlanOf[s], thread[t].id, thread[t].vnode,
                       thread[t].dir, thread[t].name, <<>>)
  OBVIOUS
<1>5. /\ c.plan = PlanOf[s] /\ c.id = thread[t].id /\ c.vnode = thread[t].vnode
      /\ c.todo = <<>>
  BY <1>4, RecIs
<1>6. thread' = [thread EXCEPT ![t] = c]
  BY <1>1, <1>2, <1>3, <1>4, AfterIs DEF ConcInv, CallInv
<1>7. c \in Calls
  <2>1. thread[t] \in Calls
    BY DEF ConcInv, Types
  <2>2. <<>> \in Seq(Vnode)
    OBVIOUS
  <2> QED BY <1>3, <1>4, <2>1, <2>2, RecCalls DEF Calls
<1>8. Moves(t, c, s)
  BY <1>1, <1>3, <1>5, <1>6, <1>7, QuietMoves DEF Busy, Known
<1>9. s \in TreeStages <=> s = "bothDrop"
  BY <1>3 DEF TreeStages
<1>10. HasTree(t) <=> s = "bothDrop"
  BY <1>1, <1>3 DEF HasTree, TreeStages
<1>11. s = "bothDrop" => c.vnode \in Vnode /\ Alive(c.vnode)' /\ ~Linked(c.vnode)'
  BY <1>1, <1>5, <1>10 DEF ConcInv, CallInv, TreeHeld, Alive, Linked, objects
<1>12. s \in LockStages <=> lock' = t
  BY <1>1, <1>3 DEF ConcInv, CallInv, LockHeld
<1>13. s \in BusyStages => c.id \in Id /\ Known(c.id)' /\ entry'[c.id].busy = t
  BY <1>1, <1>3, <1>5 DEF ConcInv, CallInv, EntryHeld, Known
<1>14. CallInv(t)'
  BY <1>3, <1>5, <1>8, <1>9, <1>11, <1>12, <1>13, CallAt
<1>15. BusyOwned' /\ \A i \in Id : VfsHas(i)' <=> VfsHas(i)
  <2>1. ~HasVfs(t) /\ ~HasVfs(t)'
    BY <1>1, <1>3, <1>8, MovesFacts DEF HasVfs, ConcInv
  <2>2. ASSUME NEW i \in Id, Busy(i), entry[i].busy = t PROVE ~VfsHas(i)
    BY <2>1, <2>2 DEF VfsHas, Busy, Ready
  <2>3. SameEntries
    BY <1>1 DEF SameEntries, Known
  <2> QED BY <1>1, <1>3, <1>5, <1>8, <2>1, <2>2, <2>3, EntriesStay
<1>16. EntriesLive'
  BY <1>1 DEF ConcInv, EntriesLive, Ready, Known, Alive, IdOf, objects
<1>17. /\ entry' \in [Id -> Entries \cup {Absent}] /\ lock' \in Thread \cup {Nobody}
       /\ owed' \in [Id -> Nat]
  BY <1>1 DEF ConcInv, Types, TypeOK
<1> QED BY <1>1, <1>5, <1>8, <1>9, <1>10, <1>14, <1>15, <1>16, <1>17, StayStep

LEMMA GiveUpStep ==
  ASSUME ConcInv, NEW t \in Thread, GiveUp(t)
  PROVE  ConcInv'
<1>1. /\ Stage(t) \in {"lookup", "dots", "create"} /\ thread[t].plan = PlanOf[Stage(t)]
      /\ UNCHANGED <<objects, entry, lock, owed>>
      /\ thread[t] \in Calls /\ thread[t].todo = <<>>
  <2>1. Stage(t) \in {"lookup", "dots", "create"} /\ Planned(t)
    BY AtStage DEF GiveUp, Getting, ConcInv, CallInv
  <2> QED BY <2>1, IdleTodo DEF GiveUp, Planned, DeleteStages, ConcInv, Types
<1>2. PICK s : s = IF Stage(t) = "create" THEN "take" ELSE "unlock"
  OBVIOUS
<1>3. PICK c : c = Rec(PlanOf[s], thread[t].id, thread[t].vnode,
                       thread[t].dir, thread[t].name, <<>>)
  OBVIOUS
<1>4. /\ c.plan = PlanOf[s] /\ c.id = thread[t].id /\ c.vnode = thread[t].vnode
      /\ c.todo = <<>>
  BY <1>3, RecIs
<1>5. thread' = [thread EXCEPT ![t] = c]
  <2>1. c = [thread[t] EXCEPT !.plan = PlanOf[s]]
    BY <1>1, <1>3, WithPlan
  <2>2. Stage(t) = "create" =>
          "insert" \in {thread[t].plan[k] : k \in DOMAIN thread[t].plan}
    <3> SUFFICES ASSUME Stage(t) = "create"
                 PROVE  \E k \in DOMAIN thread[t].plan : thread[t].plan[k] = "insert"
      OBVIOUS
    <3>1. thread[t].plan = <<"get", "insert", "unlock">>
      BY <1>1, Plans
    <3>2. 2 \in DOMAIN thread[t].plan /\ thread[t].plan[2] = "insert"
      BY <3>1
    <3> QED BY <3>2
  <2>3. Stage(t) # "create" =>
          "insert" \notin {thread[t].plan[k] : k \in DOMAIN thread[t].plan}
    <3> SUFFICES ASSUME Stage(t) # "create"
                 PROVE  \A k \in DOMAIN thread[t].plan : thread[t].plan[k] # "insert"
      OBVIOUS
    <3>1. thread[t].plan \in {<<"get", "unlock">>, <<"getDots", "unlock">>}
      BY <1>1, Plans
    <3> QED BY <3>1
  <2>4. thread' = [thread EXCEPT ![t] = [thread[t] EXCEPT !.plan = PlanOf[s]]]
    BY <1>1, <1>2, <2>2, <2>3, Plans DEF GiveUp, Plan
  <2> QED BY <2>1, <2>4
<1>6. c \in Calls /\ s \in Stages /\ s # "idle"
  <2>1. <<>> \in Seq(Vnode)
    OBVIOUS
  <2>2. s \in Stages /\ s # "idle"
    BY <1>2 DEF Stages
  <2> QED BY <1>1, <1>3, <2>1, <2>2, RecCalls DEF Calls
<1>7. Moves(t, c, s)
  BY <1>1, <1>4, <1>5, <1>6, QuietMoves DEF Busy, Known
<1>8. /\ s \in LockStages /\ Stage(t) \in LockStages
      /\ s \notin BusyStages /\ Stage(t) \notin BusyStages
      /\ s \in TreeStages <=> Stage(t) = "create"
      /\ HasTree(t) <=> Stage(t) = "create"
      /\ s \notin {"put", "both", "publish", "create", "insert", "lookup", "dots"}
  BY <1>1, <1>2 DEF LockStages, BusyStages, TreeStages, HasTree
<1>9. s \in LockStages <=> lock' = t
  BY <1>1, <1>8 DEF ConcInv, CallInv, LockHeld
<1>10. s \in TreeStages => c.vnode \in Vnode /\ Alive(c.vnode)' /\ ~Linked(c.vnode)'
  BY <1>1, <1>4, <1>8 DEF ConcInv, CallInv, TreeHeld, Alive, Linked, objects
<1>11. CallInv(t)'
  BY <1>4, <1>7, <1>8, <1>9, <1>10, CallAt
<1>12. SameEntries
  BY <1>1 DEF SameEntries, Known
<1>13. BusyOwned' /\ \A i \in Id : VfsHas(i)' <=> VfsHas(i)
  <2>1. ASSUME NEW i \in Id, Busy(i), entry[i].busy = t PROVE FALSE
    BY <1>8, <2>1 DEF ConcInv, BusyOwned
  <2> QED BY <1>7, <1>8, <1>12, <2>1, EntriesStay
<1>14. EntriesLive'
  BY <1>1, <1>12, EntriesLiveStay DEF objects
<1>15. /\ entry' \in [Id -> Entries \cup {Absent}] /\ lock' \in Thread \cup {Nobody}
       /\ owed' \in [Id -> Nat]
  BY <1>1 DEF ConcInv, Types, TypeOK
<1> QED BY <1>1, <1>4, <1>7, <1>8, <1>11, <1>13, <1>14, <1>15, StayStep

LEMMA MarkStep ==
  ASSUME ConcInv, NEW t \in Thread, NEW j \in Id, Mark(t, j)
  PROVE  ConcInv'
<1>1. /\ Stage(t) = "mark" /\ thread[t].todo = <<>> /\ thread[t] \in Calls
      /\ thread[t].plan # <<>> /\ thread' = After(t)
      /\ entry' = [entry EXCEPT ![j] =
                     IF Known(j) THEN [@ EXCEPT !.removed = TRUE] ELSE @]
      /\ UNCHANGED <<objects, lock, owed>>
  <2>1. Stage(t) = "mark"
    BY AtStage DEF Mark, ConcInv, CallInv
  <2> QED BY <2>1, IdleTodo DEF Mark, Doing, DeleteStages, ConcInv, Types
<1>2. PICK c : c = Rec(PlanOf["unlock"], thread[t].id, thread[t].vnode,
                       thread[t].dir, thread[t].name, <<>>)
  OBVIOUS
<1>3. /\ c.plan = PlanOf["unlock"] /\ c.id = thread[t].id
      /\ c.vnode = thread[t].vnode /\ c.todo = <<>>
  BY <1>2, RecIs
<1>4. thread' = [thread EXCEPT ![t] = c]
  BY <1>1, <1>2, AfterIs, NextStages DEF ConcInv, CallInv
<1>5. c \in Calls /\ "unlock" \in Stages
  <2>1. <<>> \in Seq(Vnode)
    OBVIOUS
  <2>2. "unlock" \in Stages
    BY DEF Stages
  <2> QED BY <1>1, <1>2, <2>1, <2>2, RecCalls DEF Calls
<1>6. SameEntries /\ entry' \in [Id -> Entries \cup {Absent}]
  <2>1. PICK e : e = IF Known(j) THEN [entry[j] EXCEPT !.removed = TRUE] ELSE entry[j]
    OBVIOUS
  <2>2. entry' = [entry EXCEPT ![j] = e]
    BY <1>1, <2>1
  <2>3. Known(j) => /\ e \in Entries /\ e.busy = entry[j].busy
                    /\ e.vnode = entry[j].vnode
    BY <2>1 DEF ConcInv, Types, Entries, Known
  <2>4. Known(j) => e # Absent
    BY <2>3, EntryNotAbsent
  <2> QED BY <2>1, <2>2, <2>3, <2>4 DEF ConcInv, Types, SameEntries, Known
<1>7. Moves(t, c, "unlock")
  BY <1>1, <1>3, <1>4, <1>5, <1>6, QuietMoves DEF Busy, SameEntries
<1>8. "unlock" \in LockStages <=> lock' = t
  BY <1>1 DEF ConcInv, CallInv, LockHeld, LockStages
<1>9. ~HasTree(t) /\ "unlock" \notin TreeStages /\ "unlock" \notin BusyStages
  BY <1>1 DEF HasTree, TreeStages, BusyStages
<1>10. CallInv(t)'
  BY <1>3, <1>7, <1>8, <1>9, CallAt
<1>11. BusyOwned' /\ \A i \in Id : VfsHas(i)' <=> VfsHas(i)
  <2>1. Stage(t) \notin BusyStages
    BY <1>1 DEF BusyStages
  <2>2. ASSUME NEW i \in Id, Busy(i), entry[i].busy = t PROVE FALSE
    BY <2>1, <2>2 DEF ConcInv, BusyOwned
  <2> QED BY <1>6, <1>7, <2>1, <2>2, EntriesStay
<1>12. EntriesLive'
  BY <1>1, <1>6, EntriesLiveStay DEF objects
<1>13. lock' \in Thread \cup {Nobody} /\ owed' \in [Id -> Nat]
  BY <1>1 DEF ConcInv, Types, TypeOK
<1> QED BY <1>1, <1>3, <1>6, <1>7, <1>9, <1>10, <1>11, <1>12, <1>13, StayStep

\* A thread outside of calls changes the counts and the marks of entries.
LEMMA IdleStep ==
  ASSUME ConcInv, NEW t \in Thread, Free(t), thread' = thread,
         UNCHANGED <<objects, lock>>, SameEntries,
         entry' \in [Id -> Entries \cup {Absent}], owed' \in [Id -> Nat]
  PROVE  ConcInv'
<1>1. Stage(t) = "idle" /\ thread[t] = Idle
  BY AtStage DEF ConcInv, CallInv, Free
<1>2. thread' = [thread EXCEPT ![t] = Idle]
  BY <1>1 DEF ConcInv, Types
<1>3. Moves(t, Idle, "idle")
  BY <1>2, IdleIs, QuietMoves DEF Busy, SameEntries
<1>4. Stage(t) \notin LockStages /\ Stage(t) \notin BusyStages
  BY <1>1 DEF LockStages, BusyStages
<1>5. CallInv(t)'
  BY <1>3, <1>4, IdleCall DEF ConcInv, CallInv, LockHeld
<1>6. BusyOwned' /\ \A i \in Id : VfsHas(i)' <=> VfsHas(i)
  <2>1. ASSUME NEW i \in Id, Busy(i), entry[i].busy = t PROVE FALSE
    BY <1>4, <2>1 DEF ConcInv, BusyOwned
  <2> QED BY <1>3, <1>4, <2>1, EntriesStay
<1>7. EntriesLive'
  BY EntriesLiveStay DEF objects
<1>8. ~HasTree(t) /\ "idle" \notin TreeStages
  BY <1>1 DEF HasTree, TreeStages
<1>9. lock' \in Thread \cup {Nobody}
  BY DEF ConcInv, Types, TypeOK
<1> QED BY <1>1, <1>3, <1>5, <1>6, <1>7, <1>8, <1>9, IdleIs, StayStep

\* An entry with another count.
LEMMA Recounted ==
  ASSUME ConcInv, NEW j \in Id, Ready(j), NEW n \in Nat,
         entry' = [entry EXCEPT ![j] = [entry[j] EXCEPT !.ref = n]]
  PROVE  SameEntries /\ entry' \in [Id -> Entries \cup {Absent}]
<1>1. PICK e : e = [entry[j] EXCEPT !.ref = n]
  OBVIOUS
<1>2. entry[j] \in Entries
  BY DEF ConcInv, Types, Ready, Known
<1>3. e \in Entries /\ e.busy = entry[j].busy /\ e.vnode = entry[j].vnode
  BY <1>1, <1>2 DEF Entries
<1>4. e # Absent
  BY <1>3, EntryNotAbsent
<1> QED BY <1>1, <1>3, <1>4 DEF ConcInv, Types, SameEntries, Known, Ready

Goes(t, c) == thread' = [thread EXCEPT ![t] = c]

\* A thread outside of calls makes an entry busy for the call it starts, without
\* the lock.
LEMMA StartBusy ==
  ASSUME ConcInv, NEW t \in Thread, Free(t), NEW j \in Id, ~Busy(j),
         NEW s \in {"make", "put"}, NEW w \in Vnode \cup {Null},
         NEW e \in Entries, e.busy = t,
         Sets(j, e), Goes(t, Rec(PlanOf[s], j, w, Null, Null, <<>>)),
         UNCHANGED <<objects, lock>>, owed' \in [Id -> Nat],
         s = "make" => ~Known(j),
         s = "put" => Ready(j) /\ w = entry[j].vnode
  PROVE  ConcInv'
<1>1. Stage(t) = "idle" /\ thread[t] = Idle
  BY AtStage DEF ConcInv, CallInv, Free
<1>2. PICK c : c = Rec(PlanOf[s], j, w, Null, Null, <<>>)
  OBVIOUS
<1>3. c.plan = PlanOf[s] /\ c.id = j /\ c.vnode = w /\ c.todo = <<>>
  BY <1>2, RecIs
<1>4. s \in Stages /\ s # "idle" /\ s \notin LockStages /\ s \in BusyStages
      /\ s \notin TreeStages
  BY DEF Stages, LockStages, BusyStages, TreeStages
<1>5. c \in Calls
  <2>1. <<>> \in Seq(Vnode)
    OBVIOUS
  <2> QED BY <1>2, <1>4, <2>1, RecCalls
<1>6. e # Absent /\ e.busy # Nobody
  BY EntryNotAbsent, ConcurrencyAssumption
<1>7. Moves(t, c, s)
  <2>1. \A i \in Id : Busy(i) => Busy(i)' /\ entry'[i].busy = entry[i].busy
    BY DEF Sets, Busy, Known
  <2> QED BY <1>2, <1>3, <1>4, <1>5, <2>1, QuietMoves DEF Goes
<1>8. Stage(t) \notin LockStages /\ Stage(t) \notin BusyStages /\ ~HasTree(t)
  BY <1>1 DEF LockStages, BusyStages, HasTree, TreeStages
<1>9. /\ BusyOwned'
      /\ \A i \in Id \ {j} : VfsHas(i)' <=> VfsHas(i)
      /\ VfsHas(j)' <=> HasVfs(t)'
  BY <1>3, <1>4, <1>6, <1>7, <1>8, EntrySet
<1>10. HasVfs(t)' <=> s = "put"
  BY <1>7, MovesFacts DEF ConcInv
<1>11. VfsHas(j)' <=> VfsHas(j)
  BY <1>9, <1>10 DEF VfsHas, Ready, Busy
<1>12. s = "put" => w \in Vnode /\ Alive(w)' /\ IdOf(w)' = j
  BY DEF ConcInv, EntriesLive, Alive, IdOf, objects
<1>13. /\ entry' \in [Id -> Entries \cup {Absent}] /\ entry'[j] = e
       /\ \A i \in Id \ {j} : entry'[i] = entry[i]
  BY DEF Sets
<1>14. CallInv(t)'
  <2>1. s \in LockStages <=> lock' = t
    BY <1>4, <1>8 DEF ConcInv, CallInv, LockHeld
  <2>2. Known(j)' /\ entry'[j].busy = t
    BY <1>6, <1>13 DEF Known
  <2> QED BY <1>3, <1>4, <1>7, <1>12, <2>1, <2>2, CallAt
<1>15. EntriesLive'
  <2>1. \A i \in Id : Ready(i)' => Ready(i) /\ entry'[i] = entry[i]
    BY <1>6, <1>13 DEF Ready, Known
  <2> QED BY <2>1 DEF ConcInv, EntriesLive, Alive, IdOf, objects
<1>16. lock' \in Thread \cup {Nobody} /\ thread[t].todo = <<>>
  BY <1>1, IdleIs DEF ConcInv, Types, TypeOK
<1> QED BY <1>3, <1>4, <1>7, <1>8, <1>9, <1>11, <1>13, <1>14, <1>15, <1>16, StayStep

LEMMA CallIs ==
  ASSUME NEW t, NEW p, NEW i, NEW v
  PROVE  Call(t, p, i, v) = [thread EXCEPT ![t] = Rec(p, i, v, Null, Null, <<>>)]
BY DEF Call, Rec

LEMMA GetByNumberStep ==
  ASSUME ConcInv, NEW t \in Thread, NEW i \in Id, GetByNumber(t, i)
  PROVE  ConcInv'
<1>1. Free(t) /\ UNCHANGED <<objects, lock>>
  BY DEF GetByNumber
<1>2. CASE /\ Ready(i) /\ thread' = thread
           /\ entry' = [entry EXCEPT ![i].ref = @ + 1]
           /\ owed' = [owed EXCEPT ![i] = @ + 1]
  <2>1. PICK n \in Nat : n = entry[i].ref + 1
    BY <1>2 DEF ConcInv, Types, Entries, Ready, Known
  <2>2. entry' = [entry EXCEPT ![i] = [entry[i] EXCEPT !.ref = n]]
    BY <1>2, <2>1
  <2>3. SameEntries /\ entry' \in [Id -> Entries \cup {Absent}]
    BY <1>2, <2>2, Recounted
  <2>4. owed' \in [Id -> Nat]
    BY <1>2 DEF ConcInv, Types, TypeOK
  <2> QED BY <1>1, <1>2, <2>3, <2>4, IdleStep
<1>3. CASE /\ ~Known(i) /\ owed' = owed
           /\ entry' = [entry EXCEPT ![i] = Entry(Null, 0, FALSE, t)]
           /\ thread' = Call(t, <<"GetVnode", "publish">>, i, Null)
  <2>1. PICK e : e = Entry(Null, 0, FALSE, t)
    OBVIOUS
  <2>2. e \in Entries /\ e.busy = t
    BY <2>1 DEF Entry, Entries
  <2>3. Goes(t, Rec(PlanOf["make"], i, Null, Null, Null, <<>>))
    BY <1>3, CallIs, Plans DEF Goes
  <2>4. owed' \in [Id -> Nat] /\ ~Busy(i)
    BY <1>3 DEF ConcInv, Types, TypeOK, Busy
  <2>5. Sets(i, e)
    BY <1>3, <2>1, <2>2, SetsIs
  <2>6. "make" \in {"make", "put"} /\ Null \in Vnode \cup {Null}
    OBVIOUS
  <2> QED BY <1>1, <1>3, <2>2, <2>3, <2>4, <2>5, <2>6, StartBusy
<1> QED BY <1>2, <1>3 DEF GetByNumber

LEMMA DropStarts ==
  ASSUME ConcInv, NEW t \in Thread, NEW i \in Id, Free(t), Ready(i), StartDrop(t, i),
         UNCHANGED <<objects, lock>>, owed' \in [Id -> Nat]
  PROVE  ConcInv'
<1>1. PICK w \in Vnode : w = entry[i].vnode
  BY DEF ConcInv, EntriesLive
<1>2. entry[i] \in Entries
  BY DEF ConcInv, Types, Ready, Known
<1>3. PICK e : e = Entry(entry[i].vnode, 0, entry[i].removed, t)
  OBVIOUS
<1>4. e \in Entries /\ e.busy = t
  <2>1. entry[i].vnode \in Vnode \cup {Null} /\ entry[i].removed \in BOOLEAN
    BY <1>2 DEF Entries
  <2> QED BY <1>3, <2>1 DEF Entry, Entries
<1>5. Sets(i, e)
  BY <1>3, <1>4, SetsIs DEF StartDrop
<1>6. Goes(t, Rec(PlanOf["put"], i, w, Null, Null, <<>>))
  BY <1>1, CallIs, Plans DEF StartDrop, Goes
<1>7. ~Busy(i)
  BY DEF Busy, Ready
<1> QED BY <1>1, <1>4, <1>5, <1>6, <1>7, StartBusy

LEMMA PutStep ==
  ASSUME ConcInv, NEW t \in Thread, NEW i \in Id, Put(t, i)
  PROVE  ConcInv'
<1>1. /\ Free(t) /\ Ready(i) /\ UNCHANGED <<objects, lock>>
      /\ entry[i].ref > Cardinality(InUse(entry[i].vnode)) /\ owed[i] > 0
      /\ owed' = [owed EXCEPT ![i] = @ - 1]
  BY DEF Put
<1>2. owed' \in [Id -> Nat]
  BY <1>1 DEF ConcInv, Types, TypeOK
<1>3. CASE StartDrop(t, i)
  BY <1>1, <1>2, <1>3, DropStarts
<1>4. CASE entry' = [entry EXCEPT ![i].ref = @ - 1] /\ thread' = thread
  <2>1. Cardinality(InUse(entry[i].vnode)) \in Nat
    <3>1. IsFiniteSet(InUse(entry[i].vnode))
      BY FS_Subset, ConcurrencyAssumption DEF InUse
    <3> QED BY <3>1, FS_CardinalityType
  <2>2. entry[i].ref \in Nat
    BY <1>1 DEF ConcInv, Types, Entries, Ready, Known
  <2>3. PICK n \in Nat : n = entry[i].ref - 1
    BY <1>1, <2>1, <2>2
  <2>4. entry' = [entry EXCEPT ![i] = [entry[i] EXCEPT !.ref = n]]
    BY <1>4, <2>3
  <2>5. SameEntries /\ entry' \in [Id -> Entries \cup {Absent}]
    BY <1>1, <2>4, Recounted
  <2> QED BY <1>1, <1>2, <1>4, <2>5, IdleStep
<1> QED BY <1>3, <1>4 DEF Put

LEMMA EvictStep ==
  ASSUME ConcInv, NEW t \in Thread, NEW i \in Id, Evict(t, i)
  PROVE  ConcInv'
<1>1. owed' \in [Id -> Nat]
  BY DEF Evict, ConcInv, Types, TypeOK
<1> QED BY <1>1, DropStarts DEF Evict

LEMMA CreateOpensStep ==
  ASSUME ConcInv, NEW t \in Thread, NEW d \in Vnode \cup {Root}, NEW n \in Name,
         CreateOpens(t, d, n)
  PROVE  ConcInv'
<1>1. PICK i : i = IdOf(fNodes[d][n])
  OBVIOUS
<1>2. /\ Free(t) /\ UNCHANGED <<objects, entry, lock, thread>>
      /\ owed' = [owed EXCEPT ![i] = @ + 1] /\ fNodes[d][n] # Null
  BY <1>1 DEF CreateOpens
<1>3. i \in Id
  BY <1>1, <1>2 DEF ConcInv, TreeOK, Types, TypeOK, Objects, Alive, IdOf
<1>4. owed' \in [Id -> Nat]
  BY <1>2, <1>3 DEF ConcInv, Types, TypeOK
<1>5. SameEntries /\ entry' \in [Id -> Entries \cup {Absent}]
  BY <1>2 DEF SameEntries, Known, ConcInv, Types
<1> QED BY <1>2, <1>4, <1>5, IdleStep

LEMMA CallOnIs ==
  ASSUME ConcInv, NEW t \in Thread, NEW d, NEW p, NEW i, NEW v
  PROVE  CallOn(t, d, p, i, v) = [thread EXCEPT ![t] = Rec(p, i, v, d, Null, <<>>)]
<1>1. PICK r : r = Rec(p, i, v, Null, Null, <<>>)
  OBVIOUS
<1>2. [r EXCEPT !.dir = d] = Rec(p, i, v, d, Null, <<>>)
  BY <1>1 DEF Rec
<1>3. Call(t, p, i, v) = [thread EXCEPT ![t] = r]
  BY <1>1, CallIs
<1>4. CallOn(t, d, p, i, v) = [thread EXCEPT ![t] = [r EXCEPT !.dir = d]]
  BY <1>3 DEF CallOn, ConcInv, Types
<1> QED BY <1>2, <1>4

\* The hook on d gets the lock, and will call get_vnode() for i.
LEMMA LookupIdStep ==
  ASSUME ConcInv, NEW t \in Thread, NEW d \in Vnode \cup {Root}, NEW i \in Id,
         NEW s \in {"lookup", "dots"}, NEW step, PlanOf[s] = <<step, "unlock">>,
         LookupId(t, d, step, i),
         s = "lookup" => fIds[i] \in Vnode /\ Linked(fIds[i])
  PROVE  ConcInv'
<1>1. PICK c : c = Rec(PlanOf[s], i, Null, d, Null, <<>>)
  OBVIOUS
<1>2. /\ Free(t) /\ lock = Nobody /\ lock' = t
      /\ Goes(t, c)
      /\ UNCHANGED <<objects, entry, owed>>
  BY <1>1, CallOnIs DEF LookupId, Lock, Goes
<1>3. Stage(t) = "idle" /\ thread[t] = Idle
  BY <1>2, AtStage DEF ConcInv, CallInv, Free
<1>4. c.plan = PlanOf[s] /\ c.id = i /\ c.vnode = Null /\ c.todo = <<>>
  BY <1>1, RecIs
<1>5. c \in Calls /\ s \in Stages /\ s # "idle"
  <2>1. <<>> \in Seq(Vnode) /\ s \in Stages /\ s # "idle"
    BY DEF Stages
  <2> QED BY <1>1, <2>1, RecCalls
<1>6. Moves(t, c, s)
  BY <1>2, <1>4, <1>5, QuietMoves DEF Busy, Known, Goes
<1>7. /\ s \in LockStages /\ s \notin BusyStages /\ s \notin TreeStages
      /\ s \notin {"put", "both", "publish", "create", "insert"}
      /\ Stage(t) \notin BusyStages /\ ~HasTree(t)
  BY <1>3 DEF LockStages, BusyStages, TreeStages, HasTree
<1>8. s = "lookup" => fIds'[c.id] \in Vnode /\ Linked(fIds[c.id])'
  BY <1>2, <1>4 DEF Linked, objects
<1>9. CallInv(t)'
  BY <1>2, <1>4, <1>6, <1>7, <1>8, CallAt
<1>10. SameEntries
  BY <1>2 DEF SameEntries, Known
<1>11. BusyOwned' /\ \A j \in Id : VfsHas(j)' <=> VfsHas(j)
  <2>1. ASSUME NEW j \in Id, Busy(j), entry[j].busy = t PROVE FALSE
    BY <1>7, <2>1 DEF ConcInv, BusyOwned
  <2> QED BY <1>6, <1>7, <1>10, <2>1, EntriesStay
<1>12. EntriesLive'
  BY <1>2, <1>10, EntriesLiveStay DEF objects
<1>13. /\ entry' \in [Id -> Entries \cup {Absent}] /\ lock' \in Thread \cup {Nobody}
       /\ owed' \in [Id -> Nat] /\ thread[t].todo = <<>>
  BY <1>2, <1>3, IdleIs DEF ConcInv, Types, TypeOK
<1> QED BY <1>2, <1>4, <1>6, <1>7, <1>9, <1>11, <1>12, <1>13, StayStep

LEMMA LookupStep ==
  ASSUME ConcInv, NEW t \in Thread, NEW d \in Vnode \cup {Root}, NEW n \in Name,
         Lookup(t, d, n)
  PROVE  ConcInv'
<1>1. PICK v : v = fNodes[d][n]
  OBVIOUS
<1>2. v # Null /\ LookupId(t, d, "get", IdOf(v))
  BY <1>1 DEF Lookup
<1>3. /\ v \in Vnode /\ IdOf(v) \in Id /\ fIds[IdOf(v)] = v /\ Linked(v)
  <2>1. v \in Vnode
    BY <1>1, <1>2 DEF ConcInv, Types, TypeOK
  <2>2. Alive(v) /\ IdOf(v) # Null
    BY <1>1, <1>2 DEF ConcInv, TreeOK
  <2>3. IdOf(v) \in Id
    BY <2>1, <2>2 DEF ConcInv, Types, TypeOK, Objects, Alive, IdOf
  <2> QED BY <1>1, <2>1, <2>2, <2>3 DEF ConcInv, IdsExact, Linked
<1> QED BY <1>2, <1>3, LookupIdStep, Plans

LEMMA LookupDotsStep ==
  ASSUME ConcInv, NEW t \in Thread, NEW d \in Vnode, LookupDots(t, d)
  PROVE  ConcInv'
<1>1. PICK i : /\ LookupId(t, d, "getDots", i)
               /\ \/ i = IdOf(d)
                  \/ vn[d].parent \in Vnode /\ i \in ParentIds(d)
  BY DEF LookupDots
<1>2. i \in Id
  <2>1. CASE i = IdOf(d)
    <3>1. PICK j \in Id : Ready(j) /\ entry[j].vnode = d
      BY <1>1, ConcurrencyAssumption DEF LookupId, Called
    <3> QED BY <2>1, <3>1 DEF ConcInv, EntriesLive
  <2>2. CASE vn[d].parent \in Vnode /\ i \in ParentIds(d)
    <3>1. PICK p \in Vnode : p = vn[d].parent
      BY <2>2
    <3>2. Alive(p) => IdOf(p) \in Id \cup {Null}
      BY DEF ConcInv, Types, Objects, Alive, IdOf
    <3> QED BY <2>2, <3>1, <3>2 DEF ParentIds
  <2> QED BY <1>1, <2>1, <2>2
<1> QED BY <1>1, <1>2, LookupIdStep, Plans

LEMMA PublishStep ==
  ASSUME ConcInv, NEW t \in Thread, Publish(t)
  PROVE  ConcInv'
<1>1. PICK i, v : i = thread[t].id /\ v = thread[t].vnode
  OBVIOUS
<1>2. PICK e : e = IF v = Null THEN Absent ELSE Entry(v, 1, FALSE, Nobody)
  OBVIOUS
<1>3. /\ Stage(t) = "publish" /\ thread[t].plan # <<>> /\ thread[t].todo = <<>>
      /\ thread' = After(t)
      /\ entry' = [entry EXCEPT ![i] = e]
      /\ owed' = [owed EXCEPT ![i] = IF v = Null THEN @ ELSE @ + 1]
      /\ UNCHANGED <<objects, lock>>
  <2>1. Stage(t) = "publish"
    BY AtStage DEF Publish, ConcInv, CallInv
  <2> QED BY <1>1, <1>2, <2>1, IdleTodo DEF Publish, Doing, DeleteStages
<1>4. thread' = [thread EXCEPT ![t] = Idle]
  BY <1>3, AfterIs, NextStages DEF ConcInv, CallInv
<1>5. /\ i \in Id /\ Known(i) /\ entry[i].busy = t /\ Busy(i)
  BY <1>1, <1>3, ConcurrencyAssumption
  DEF ConcInv, CallInv, EntryHeld, BusyStages, Busy
<1>6. v # Null => v \in Vnode /\ Alive(v) /\ IdOf(v) = i
  BY <1>1, <1>3 DEF ConcInv, CallInv, VfsHeld, HasVfs
<1>7. /\ v = Null => e = Absent
      /\ v # Null => e \in Entries /\ e # Absent /\ e.busy = Nobody /\ e.vnode = v
  <2>1. v # Null => e \in Entries /\ e.busy = Nobody /\ e.vnode = v
    BY <1>2, <1>6 DEF Entry, Entries
  <2> QED BY <1>2, <2>1, EntryNotAbsent
<1>8. Sets(i, e) /\ e \in Entries \cup {Absent}
  BY <1>3, <1>5, <1>7, SetsIs
<1>9. Moves(t, Idle, "idle")
  <2>1. \A j \in Id : Busy(j) /\ entry[j].busy # t =>
                        Busy(j)' /\ entry'[j].busy = entry[j].busy
    BY <1>5, <1>8 DEF Sets, Busy, Known
  <2> QED BY <1>3, <1>4, <2>1, IdleIs, QuietMoves
<1>10. /\ "idle" \notin TreeStages /\ ~HasTree(t) /\ Stage(t) \notin LockStages
  BY <1>3 DEF TreeStages, HasTree, LockStages
<1>11. CallInv(t)'
  BY <1>3, <1>9, <1>10, IdleCall DEF ConcInv, CallInv, LockHeld
<1>12. /\ BusyOwned'
       /\ \A j \in Id \ {i} : VfsHas(j)' <=> VfsHas(j)
       /\ VfsHas(i)' <=> e # Absent /\ (e.busy = Nobody \/ HasVfs(t)')
  BY <1>1, <1>5, <1>7, <1>8, <1>9, EntrySet
<1>13. VfsHas(i) <=> v # Null
  BY <1>1, <1>3, <1>5 DEF VfsHas, Ready, Busy, HasVfs
<1>14. \A j \in Id : VfsHas(j)' <=> VfsHas(j)
  BY <1>7, <1>12, <1>13
<1>15. EntriesLive'
  <2>1. \A j \in Id \ {i} : Ready(j)' <=> Ready(j)
    BY <1>8 DEF Sets, Ready, Known
  <2>2. Ready(i)' => v # Null /\ entry'[i].vnode = v
    BY <1>7, <1>8 DEF Sets, Ready, Known
  <2> QED BY <1>3, <1>6, <1>8, <2>1, <2>2
      DEF Sets, ConcInv, EntriesLive, Alive, IdOf, objects
<1>16. /\ entry' \in [Id -> Entries \cup {Absent}] /\ lock' \in Thread \cup {Nobody}
       /\ owed' \in [Id -> Nat]
  BY <1>3, <1>5, <1>8 DEF Sets, ConcInv, Types, TypeOK
<1> QED BY <1>3, <1>9, <1>10, <1>11, <1>12, <1>14, <1>15, <1>16, IdleIs, StayStep

LEMMA DropStep ==
  ASSUME ConcInv, NEW t \in Thread, Drop(t)
  PROVE  ConcInv'
<1>1. PICK i : i = thread[t].id
  OBVIOUS
<1>2. /\ Stage(t) \in {"putDrop", "bothDrop"} /\ thread[t].plan # <<>>
      /\ thread[t].todo = <<>> /\ thread[t] \in Calls
      /\ thread' = After(t)
      /\ entry' = [entry EXCEPT ![i] = Absent]
      /\ UNCHANGED <<objects, lock, owed>>
  <2>1. Stage(t) \in {"putDrop", "bothDrop"}
    BY AtStage DEF Drop, ConcInv, CallInv
  <2> QED BY <1>1, <2>1, IdleTodo DEF Drop, Doing, DeleteStages, ConcInv, Types
<1>3. PICK s : s = NextStage[Stage(t)]
  OBVIOUS
<1>4. /\ s \in {"idle", "take"} /\ s \in Stages /\ s \notin BusyStages
      /\ s = "take" <=> Stage(t) = "bothDrop"
      /\ s \in TreeStages <=> s = "take"
      /\ HasTree(t) <=> s = "take"
      /\ s \in LockStages <=> s = "take"
      /\ Stage(t) \in LockStages <=> s = "take"
  BY <1>2, <1>3, NextStages DEF Stages, BusyStages, TreeStages, HasTree, LockStages
<1>5. PICK c : c = IF s = "idle" THEN Idle
                   ELSE Rec(PlanOf[s], thread[t].id, thread[t].vnode,
                            thread[t].dir, thread[t].name, <<>>)
  OBVIOUS
<1>6. /\ c.plan = PlanOf[s] /\ c.todo = <<>>
      /\ s = "take" => c.vnode = thread[t].vnode
      /\ s = "idle" => c = Idle
  BY <1>4, <1>5, RecIs, IdleIs
<1>7. thread' = [thread EXCEPT ![t] = c]
  BY <1>2, <1>3, <1>4, <1>5, AfterIs DEF ConcInv, CallInv
<1>8. c \in Calls
  <2>1. <<>> \in Seq(Vnode)
    OBVIOUS
  <2>2. Rec(PlanOf[s], thread[t].id, thread[t].vnode, thread[t].dir,
            thread[t].name, <<>>) \in Calls
    BY <1>2, <1>4, <2>1, RecCalls DEF Calls
  <2> QED BY <1>5, <2>2, IdleIs
<1>9. /\ i \in Id /\ Known(i) /\ entry[i].busy = t /\ Busy(i)
  BY <1>1, <1>2, ConcurrencyAssumption
  DEF ConcInv, CallInv, EntryHeld, BusyStages, Busy
<1>10. Sets(i, Absent)
  BY <1>2, <1>9, SetsIs
<1>11. Moves(t, c, s)
  <2>1. \A j \in Id : Busy(j) /\ entry[j].busy # t =>
                        Busy(j)' /\ entry'[j].busy = entry[j].busy
    BY <1>9, <1>10 DEF Sets, Busy, Known
  <2> QED BY <1>2, <1>4, <1>6, <1>7, <1>8, <2>1, QuietMoves
<1>12. CallInv(t)'
  <2>1. s \in LockStages <=> lock' = t
    BY <1>2, <1>4 DEF ConcInv, CallInv, LockHeld
  <2>2. s \in TreeStages => c.vnode \in Vnode /\ Alive(c.vnode)' /\ ~Linked(c.vnode)'
    BY <1>2, <1>4, <1>6 DEF ConcInv, CallInv, TreeHeld, Alive, Linked, objects
  <2> QED BY <1>4, <1>6, <1>11, <2>1, <2>2, CallAt
<1>13. /\ BusyOwned'
       /\ \A j \in Id \ {i} : VfsHas(j)' <=> VfsHas(j)
       /\ ~VfsHas(i)'
  <2>1. PICK e \in Entries \cup {Absent} : e = Absent
    OBVIOUS
  <2>2. Sets(i, e)
    BY <1>10, <2>1
  <2> QED BY <1>1, <1>9, <1>11, <2>1, <2>2, EntrySet
<1>14. ~VfsHas(i)
  BY <1>2, <1>9 DEF VfsHas, Ready, Busy, HasVfs
<1>15. EntriesLive'
  <2>1. \A j \in Id : Ready(j)' => Ready(j) /\ entry'[j] = entry[j]
    BY <1>10 DEF Sets, Ready, Known
  <2> QED BY <1>2, <2>1 DEF ConcInv, EntriesLive, Alive, IdOf, objects
<1>16. /\ entry' \in [Id -> Entries \cup {Absent}] /\ lock' \in Thread \cup {Nobody}
       /\ owed' \in [Id -> Nat]
  BY <1>2, <1>10 DEF Sets, ConcInv, Types, TypeOK
<1>17. \A j \in Id : VfsHas(j)' <=> VfsHas(j)
  BY <1>13, <1>14
<1> QED BY <1>2, <1>4, <1>6, <1>11, <1>12, <1>13, <1>15, <1>16, <1>17, StayStep

-----------------------------------------------------------------------------
(* Turns that change counts.                                               *)

LEMMA IdUnique ==
  ASSUME ConcInv, NEW v \in Vnode, NEW w \in Vnode, Alive(v), Alive(w),
         IdOf(v) = IdOf(w), IdOf(v) # Null
  PROVE  v = w
BY DEF ConcInv, IdsExact

LEMMA IdsTyped ==
  ASSUME ConcInv, NEW v \in Vnode, Alive(v)
  PROVE  IdOf(v) \in Id \cup {Null}
BY DEF ConcInv, Types, TypeOK, Objects, Alive, IdOf

LEMMA VfsRefAt ==
  ASSUME ConcInv, NEW v \in Vnode, Alive(v), vn'[v] = vn[v]
  PROVE  \E j \in Id \cup {Null} :
           /\ j = IdOf(v)
           /\ VfsRef(v) <=> j # Null /\ VfsHas(j)
           /\ VfsRef(v)' <=> j # Null /\ VfsHas(j)'
<1>1. PICK j : j = IdOf(v) /\ j = IdOf(v)'
  BY DEF IdOf
<1>2. j \in Id \cup {Null}
  BY <1>1, IdsTyped
<1>3. VfsRef(v)' <=> j # Null /\ VfsHas(j)'
  BY <1>1 DEF VfsRef, VfsHas
<1>4. VfsRef(v) <=> j # Null /\ VfsHas(j)
  BY <1>1 DEF VfsRef
<1> QED BY <1>1, <1>2, <1>3, <1>4

LEMMA CountStep ==
  ASSUME ConcInv, NEW t \in Thread, NEW c, NEW s, Moves(t, c, s),
         vn' = vn, fNodes' = fNodes, fIds' = fIds, fRef' \in [Vnode -> Nat],
         entry' \in [Id -> Entries \cup {Absent}], lock' \in Thread \cup {Nobody},
         owed' \in [Id -> Nat],
         CallInv(t)', BusyOwned', EntriesLive', RefsExact', Doomed', DoomedOnce'
  PROVE  ConcInv'
<1>1. Types'
  <2>1. thread' \in [Thread -> Calls]
    BY MovesFacts DEF ConcInv
  <2> QED BY <2>1 DEF ConcInv, Types, TypeOK
<1>2. \A u \in Thread : CallInv(u)'
  BY OthersKeep
<1>3. IdsExact' /\ TreeOK'
  BY ObjectsStay
<1> QED BY <1>1, <1>2, <1>3 DEF ConcInv

LEMMA ReleaseStep ==
  ASSUME ConcInv, NEW t \in Thread, Release(t)
  PROVE  ConcInv'
<1>1. PICK i, v : i = thread[t].id /\ v = thread[t].vnode
  OBVIOUS
<1>2. PICK k : k = IF fRef[v] = 1 THEN <<v>> ELSE <<>>
  OBVIOUS
<1>3. /\ Stage(t) \in {"put", "take", "both", "rmdir"} /\ thread[t].plan # <<>>
      /\ thread[t].todo = <<>> /\ thread[t] \in Calls
      /\ thread' = [After(t) EXCEPT ![t].todo = k]
      /\ fRef' = [fRef EXCEPT ![v] = @ - 1]
      /\ UNCHANGED <<vn, fNodes, fIds, entry, lock, owed>>
  <2>1. Stage(t) \in {"put", "take", "both", "rmdir"}
    BY AtStage DEF Release, MayRelease, ConcInv, CallInv
  <2> QED BY <1>1, <1>2, <2>1, IdleTodo
      DEF Release, MayRelease, Doing, DeleteStages, ConcInv, Types
<1>4. PICK s : s = NextStage[Stage(t)]
  OBVIOUS
<1>5. /\ s \in {"putDelete", "takeDelete", "bothDelete", "rmdirDelete"} /\ s \in Stages
      /\ Stage(t) \in LockStages <=> s \in LockStages
      /\ Stage(t) \in BusyStages <=> s \in BusyStages
      /\ Stage(t) \in BusyStages <=> Stage(t) \in {"put", "both"}
      /\ Stage(t) # "put" => Stage(t) \in LockStages
      /\ s \in TreeStages <=> Stage(t) = "both"
      /\ s = "bothDelete" <=> Stage(t) = "both"
      /\ s = "putDelete" <=> Stage(t) = "put"
      /\ s # "bothDelete" => s \in DeleteStages
      /\ HasTree(t) <=> Stage(t) # "put"
      /\ HasVfs(t) <=> Stage(t) \in {"put", "both"}
  BY <1>3, <1>4, NextStages
  DEF Stages, LockStages, BusyStages, TreeStages, DeleteStages, HasTree, HasVfs
<1>6. PICK c : c = Rec(PlanOf[s], i, v, thread[t].dir, thread[t].name, k)
  OBVIOUS
<1>7. c.plan = PlanOf[s] /\ c.id = i /\ c.vnode = v /\ c.todo = k
  BY <1>6, RecIs
<1>8. thread' = [thread EXCEPT ![t] = c]
  <2>1. PICK r : r = Rec(PlanOf[s], i, v, thread[t].dir, thread[t].name, <<>>)
    OBVIOUS
  <2>2. After(t) = [thread EXCEPT ![t] = r]
    BY <1>1, <1>3, <1>4, <1>5, <2>1, AfterIs DEF ConcInv, CallInv
  <2>3. [r EXCEPT !.todo = k] = c
    BY <1>6, <2>1 DEF Rec
  <2>4. thread' = [thread EXCEPT ![t] = [r EXCEPT !.todo = k]]
    BY <1>3, <2>2 DEF ConcInv, Types
  <2> QED BY <2>3, <2>4
<1>9. v \in Vnode /\ Alive(v) /\ fRef[v] # 0 /\ fRef[v] \in Nat
  BY <1>1, <1>5, Counted DEF ConcInv, Types, TypeOK
<1>10. c \in Calls
  <2>1. k \in Seq(Vnode)
    BY <1>2, <1>9
  <2> QED BY <1>1, <1>3, <1>5, <1>6, <2>1, RecCalls DEF Calls
<1>11. /\ fRef' \in [Vnode -> Nat] /\ fRef'[v] = fRef[v] - 1
       /\ \A w \in Vnode \ {v} : fRef'[w] = fRef[w]
  BY <1>3, <1>9 DEF ConcInv, Types, TypeOK
<1>12. Moves(t, c, s)
  BY <1>3, <1>5, <1>7, <1>8, <1>9, <1>10, <1>11 DEF Moves, Busy, Known
<1>13. SameEntries
  BY <1>3 DEF SameEntries, Known
<1>14. ~HasVfs(t)'
  BY <1>5, <1>12, MovesFacts DEF ConcInv
<1>15. /\ BusyOwned'
       /\ \A j \in Id : VfsHas(j)' <=> IF Busy(j) /\ entry[j].busy = t THEN FALSE
                                       ELSE VfsHas(j)
  BY <1>1, <1>5, <1>7, <1>12, <1>13, <1>14, EntriesStay
<1>16. EntriesLive'
  BY <1>3, <1>13, EntriesLiveStay
<1>17. s \in LockStages <=> lock' = t
  BY <1>3, <1>5 DEF ConcInv, CallInv, LockHeld
<1>18. LockHeld(t)'
  BY <1>12, <1>17, MovesFacts DEF ConcInv, LockHeld
<1>19. /\ \A w : TreeRef(w) <=> \/ Linked(w)
                                \/ HasTree(t) /\ v = w
                                \/ OtherTree(t, w)
       /\ \A w : TreeRef(w)' <=> \/ Linked(w)
                                 \/ s \in TreeStages /\ v = w
                                 \/ OtherTree(t, w)
       /\ lock \in {t, Nobody} => \A w : ~OtherTree(t, w)
  <2>1. \A w : Linked(w)' <=> Linked(w)
    BY <1>3 DEF Linked
  <2> QED BY <1>1, <1>7, <1>12, <1>18, <2>1, TreeRefs
<1>20. ASSUME Stage(t) \in {"put", "both"}
       PROVE  /\ RefsExact'
              /\ k # <<>> => Stage(t) = "put" /\ IdOf(v) = i
  <2>1. /\ i \in Id /\ IdOf(v) = i /\ Busy(i) /\ entry[i].busy = t
        /\ i # Null
    BY <1>1, <1>5, <1>20, ConcurrencyAssumption
    DEF ConcInv, CallInv, EntryHeld, VfsHeld, Busy
  <2>2. \A j \in Id \ {i} : VfsHas(j)' <=> VfsHas(j)
    <3>1. \A j \in Id \ {i} : ~(Busy(j) /\ entry[j].busy = t)
      BY <1>1 DEF ConcInv, BusyOwned
    <3> QED BY <1>15, <3>1
  <2>3. VfsRef(v) /\ ~VfsRef(v)'
    <3>1. VfsHas(i) /\ ~VfsHas(i)'
      BY <1>5, <1>15, <1>20, <2>1 DEF VfsHas
    <3> QED BY <1>3, <1>9, <2>1, <3>1, VfsRefAt
  <2>4. \A w \in Vnode \ {v} : Alive(w) => (VfsRef(w)' <=> VfsRef(w))
    <3> SUFFICES ASSUME NEW w \in Vnode \ {v}, Alive(w)
                 PROVE  VfsRef(w)' <=> VfsRef(w)
      OBVIOUS
    <3>1. PICK j \in Id \cup {Null} :
            /\ j = IdOf(w)
            /\ VfsRef(w) <=> j # Null /\ VfsHas(j)
            /\ VfsRef(w)' <=> j # Null /\ VfsHas(j)'
      BY <1>3, VfsRefAt
    <3>2. j # i
      BY <1>9, <2>1, <3>1, IdUnique
    <3> QED BY <2>2, <3>1, <3>2
  <2>5. \A w \in Vnode : TreeRef(w)' <=> TreeRef(w)
    BY <1>5, <1>19, <1>20
  <2>6. RefsExact'
    BY <1>3, <1>9, <1>11, <2>3, <2>4, <2>5 DEF ConcInv, RefsExact, Alive
  <2>7. k # <<>> => Stage(t) = "put"
    <3>1. Stage(t) = "both" => TreeRef(v)
      BY <1>5, <1>19
    <3>2. Stage(t) = "both" => fRef[v] = 2
      BY <1>9, <2>3, <3>1 DEF ConcInv, RefsExact
    <3> QED BY <1>2, <1>20, <3>2
  <2> QED BY <2>1, <2>6, <2>7
<1>21. ASSUME Stage(t) \in {"take", "rmdir"}
       PROVE  RefsExact'
  <2>1. lock = t /\ ~Linked(v)
    BY <1>1, <1>5, <1>21 DEF ConcInv, CallInv, LockHeld, TreeHeld
  <2>2. TreeRef(v) /\ ~TreeRef(v)'
    BY <1>5, <1>19, <1>21, <2>1
  <2>3. \A w \in Vnode \ {v} : TreeRef(w)' <=> TreeRef(w)
    BY <1>19
  <2>4. \A j \in Id : VfsHas(j)' <=> VfsHas(j)
    <3>1. \A j \in Id : ~(Busy(j) /\ entry[j].busy = t)
      BY <1>5, <1>21 DEF ConcInv, BusyOwned
    <3> QED BY <1>15, <3>1
  <2>5. \A w \in Vnode : Alive(w) => (VfsRef(w)' <=> VfsRef(w))
    <3> SUFFICES ASSUME NEW w \in Vnode, Alive(w)
                 PROVE  VfsRef(w)' <=> VfsRef(w)
      OBVIOUS
    <3>1. PICK j \in Id \cup {Null} :
            /\ VfsRef(w) <=> j # Null /\ VfsHas(j)
            /\ VfsRef(w)' <=> j # Null /\ VfsHas(j)'
      BY <1>3, VfsRefAt
    <3> QED BY <2>4, <3>1
  <2> QED BY <1>3, <1>9, <1>11, <2>2, <2>3, <2>5 DEF ConcInv, RefsExact, Alive
<1>22. RefsExact'
  BY <1>3, <1>20, <1>21
<1>23. k # <<>> => /\ fRef[v] = 1 /\ k = <<v>> /\ s \in DeleteStages
                   /\ s = "putDelete" => IdOf(v) = i
  BY <1>2, <1>3, <1>5, <1>20
<1>24. Doomed' /\ DoomedOnce'
  <2>1. \A w \in Vnode : Alive(w)' /\ fRef'[w] = 0 =>
          (Alive(w) /\ fRef[w] = 0) \/ (c.todo # <<>> /\ c.vnode = w)
    <3>1. fRef'[v] = 0 => k # <<>>
      BY <1>2, <1>9, <1>11
    <3> QED BY <1>3, <1>7, <1>11, <3>1 DEF Alive
  <2> QED BY <1>3, <1>7, <1>9, <1>12, <2>1, DoomsKeep
<1>25. CallInv(t)'
  <2>1. s \in BusyStages => c.id \in Id /\ Known(c.id)' /\ entry'[c.id].busy = t
    BY <1>1, <1>3, <1>5, <1>7 DEF ConcInv, CallInv, EntryHeld, Known
  <2>2. c.todo # <<>> =>
          /\ s \in DeleteStages
          /\ c.vnode \in Vnode /\ c.todo = <<c.vnode>>
          /\ Alive(c.vnode)' /\ fRef'[c.vnode] = 0
          /\ s = "putDelete" => IdOf(c.vnode)' = c.id
    BY <1>3, <1>7, <1>9, <1>11, <1>23 DEF Alive, IdOf
  <2>3. s \in TreeStages => c.vnode \in Vnode /\ Alive(c.vnode)' /\ ~Linked(c.vnode)'
    BY <1>1, <1>3, <1>5, <1>7, <1>9 DEF ConcInv, CallInv, TreeHeld, Alive, Linked
  <2> QED BY <1>5, <1>12, <1>17, <2>1, <2>2, <2>3, CallAt
<1>26. /\ entry' \in [Id -> Entries \cup {Absent}] /\ lock' \in Thread \cup {Nobody}
       /\ owed' \in [Id -> Nat]
  BY <1>3 DEF ConcInv, Types, TypeOK
<1> QED BY <1>3, <1>11, <1>12, <1>15, <1>16, <1>22, <1>24, <1>25, <1>26, CountStep

\* What has a number and is not being destroyed by another thread has a
\* reference: the lock and the entry are t's.
LEMMA NoDoom ==
  ASSUME ConcInv, NEW t \in Thread, NEW v \in Vnode, Alive(v), NEW i \in Id,
         IdOf(v) = i, lock \in {t, Nobody}, Busy(i) => entry[i].busy = t,
         thread[t].todo = <<>>
  PROVE  fRef[v] # 0
<1> SUFFICES ASSUME fRef[v] = 0 PROVE FALSE
  OBVIOUS
<1>1. PICK u \in Thread : thread[u].todo # <<>> /\ thread[u].vnode = v
  BY DEF ConcInv, Doomed
<1>2. Stage(u) \in DeleteStages /\ (Stage(u) = "putDelete" => i = thread[u].id)
  BY <1>1 DEF ConcInv, CallInv, Destroys
<1>3. u # t
  BY <1>1
<1>4. CASE Stage(u) \in LockStages
  BY <1>3, <1>4, ConcurrencyAssumption DEF ConcInv, CallInv, LockHeld
<1>5. CASE Stage(u) = "putDelete"
  <2>1. Known(i) /\ entry[i].busy = u
    BY <1>2, <1>5 DEF ConcInv, CallInv, EntryHeld, BusyStages
  <2> QED BY <1>3, <2>1, ConcurrencyAssumption DEF Busy
<1> QED BY <1>2, <1>4, <1>5 DEF DeleteStages, LockStages

\* The VFS gets a reference to v.
LEMMA VfsGains ==
  ASSUME ConcInv, NEW i \in Id, NEW v \in Vnode, Alive(v), IdOf(v) = i, vn' = vn,
         fRef' = [u \in Vnode |-> IF u = v THEN fRef[u] + 1 ELSE fRef[u]],
         \A w \in Vnode : TreeRef(w)' <=> TreeRef(w),
         \A j \in Id \ {i} : VfsHas(j)' <=> VfsHas(j), ~VfsHas(i), VfsHas(i)'
  PROVE  RefsExact'
<1>1. i # Null
  BY ConcurrencyAssumption
<1>2. ~VfsRef(v) /\ VfsRef(v)'
  BY <1>1, VfsRefAt
<1>3. \A w \in Vnode \ {v} : Alive(w) => (VfsRef(w)' <=> VfsRef(w))
  <2> SUFFICES ASSUME NEW w \in Vnode \ {v}, Alive(w)
               PROVE  VfsRef(w)' <=> VfsRef(w)
    OBVIOUS
  <2>1. PICK j \in Id \cup {Null} :
          /\ j = IdOf(w)
          /\ VfsRef(w) <=> j # Null /\ VfsHas(j)
          /\ VfsRef(w)' <=> j # Null /\ VfsHas(j)'
    BY VfsRefAt
  <2>2. j # i
    BY <1>1, <2>1, IdUnique
  <2> QED BY <2>1, <2>2
<1>4. fRef[v] \in Nat /\ fRef'[v] = fRef[v] + 1
      /\ \A w \in Vnode \ {v} : fRef'[w] = fRef[w]
  BY DEF ConcInv, Types, TypeOK
<1> QED BY <1>2, <1>3, <1>4 DEF ConcInv, RefsExact, Alive

LEMMA GetVnodeStep ==
  ASSUME ConcInv, NEW t \in Thread, GetVnode(t)
  PROVE  ConcInv'
<1>1. PICK i, v : i = thread[t].id /\ v = fIds[thread[t].id]
  OBVIOUS
<1>2. /\ Stage(t) = "make" /\ thread[t].plan # <<>> /\ thread[t].todo = <<>>
      /\ thread[t] \in Calls /\ lock = Nobody
      /\ fRef' = [u \in Vnode |-> IF u = v THEN fRef[u] + 1 ELSE fRef[u]]
      /\ thread' = [After(t) EXCEPT ![t].vnode = v]
      /\ UNCHANGED <<vn, fNodes, fIds, entry, lock, owed>>
  <2>1. Stage(t) = "make"
    BY AtStage DEF GetVnode, ConcInv, CallInv
  <2> QED BY <1>1, <2>1, IdleTodo
      DEF GetVnode, Doing, DeleteStages, ConcInv, Types
<1>3. PICK c : c = Rec(PlanOf["publish"], i, v, thread[t].dir, thread[t].name, <<>>)
  OBVIOUS
<1>4. c.plan = PlanOf["publish"] /\ c.id = i /\ c.vnode = v /\ c.todo = <<>>
  BY <1>3, RecIs
<1>5. thread' = [thread EXCEPT ![t] = c]
  <2>1. PICK r : r = Rec(PlanOf["publish"], i, thread[t].vnode, thread[t].dir,
                         thread[t].name, <<>>)
    OBVIOUS
  <2>2. After(t) = [thread EXCEPT ![t] = r]
    BY <1>1, <1>2, <2>1, AfterIs, NextStages DEF ConcInv, CallInv
  <2>3. [r EXCEPT !.vnode = v] = c
    BY <1>3, <2>1 DEF Rec
  <2>4. thread' = [thread EXCEPT ![t] = [r EXCEPT !.vnode = v]]
    BY <1>2, <2>2 DEF ConcInv, Types
  <2> QED BY <2>3, <2>4
<1>6. i \in Id /\ i # Null /\ Known(i) /\ entry[i].busy = t /\ Busy(i)
  BY <1>1, <1>2, ConcurrencyAssumption
  DEF ConcInv, CallInv, EntryHeld, BusyStages, Busy
<1>7. /\ v \in Vnode \cup {Null}
      /\ v # Null => v \in Vnode /\ Alive(v) /\ IdOf(v) = i
  BY <1>1, <1>6 DEF ConcInv, Types, TypeOK, IdsExact
<1>8. v # Null => fRef[v] # 0
  BY <1>2, <1>6, <1>7, NoDoom
<1>9. c \in Calls /\ "publish" \in Stages
  <2>1. <<>> \in Seq(Vnode) /\ "publish" \in Stages
    BY DEF Stages
  <2> QED BY <1>2, <1>3, <1>6, <1>7, <2>1, RecCalls DEF Calls
<1>10. /\ fRef' \in [Vnode -> Nat]
       /\ \A w \in Vnode : fRef[w] \in Nat
                           /\ fRef'[w] = IF w = v THEN fRef[w] + 1 ELSE fRef[w]
  BY <1>2 DEF ConcInv, Types, TypeOK
<1>11. Moves(t, c, "publish")
  <2>1. \A w \in Vnode : fRef[w] = 0 => fRef'[w] = 0
    BY <1>8, <1>10, ConcurrencyAssumption
  <2>2. \A j \in Id : Busy(j) => Busy(j)' /\ entry'[j].busy = entry[j].busy
    BY <1>2 DEF Busy, Known
  <2> QED BY <1>2, <1>4, <1>5, <1>9, <2>1, <2>2 DEF Moves
<1>12. SameEntries
  BY <1>2 DEF SameEntries, Known
<1>13. /\ "publish" \in BusyStages /\ "publish" \notin LockStages
       /\ "publish" \notin TreeStages /\ Stage(t) \notin LockStages /\ ~HasTree(t)
       /\ ~HasVfs(t)
  BY <1>2 DEF BusyStages, LockStages, TreeStages, HasTree, HasVfs
<1>14. HasVfs(t)' <=> v # Null
  BY <1>4, <1>11, MovesFacts DEF ConcInv
<1>15. /\ BusyOwned'
       /\ \A j \in Id : VfsHas(j)' <=> IF Busy(j) /\ entry[j].busy = t THEN HasVfs(t)'
                                       ELSE VfsHas(j)
  BY <1>1, <1>4, <1>11, <1>12, <1>13, EntriesStay
<1>16. EntriesLive'
  BY <1>2, <1>12, EntriesLiveStay
<1>17. CallInv(t)'
  <2>1. lock' # t
    BY <1>2, ConcurrencyAssumption
  <2>2. Known(i)' /\ entry'[i].busy = t
    BY <1>2, <1>6 DEF Known
  <2>3. v # Null => Alive(v)' /\ IdOf(v)' = i
    BY <1>2, <1>7 DEF Alive, IdOf
  <2> QED BY <1>4, <1>6, <1>7, <1>11, <1>13, <2>1, <2>2, <2>3, CallAt
<1>18. \A w : TreeRef(w)' <=> TreeRef(w)
  <2>1. LockHeld(t)' /\ \A w : Linked(w)' <=> Linked(w)
    BY <1>2, <1>17 DEF CallInv, Linked
  <2> QED BY <1>11, <1>13, <2>1, TreeRefs
<1>19. /\ \A j \in Id \ {i} : VfsHas(j)' <=> VfsHas(j)
       /\ ~VfsHas(i) /\ (VfsHas(i)' <=> v # Null)
  <2>1. \A j \in Id \ {i} : ~(Busy(j) /\ entry[j].busy = t)
    BY <1>1 DEF ConcInv, BusyOwned
  <2>2. ~VfsHas(i)
    BY <1>6, <1>13 DEF VfsHas, Ready, Busy
  <2> QED BY <1>6, <1>14, <1>15, <2>1, <2>2
<1>20. RefsExact'
  <2>1. CASE v = Null
    <3>1. fRef' = fRef
      BY <1>2, <2>1, ConcurrencyAssumption DEF ConcInv, Types, TypeOK
    <3>2. \A j \in Id : VfsHas(j)' <=> VfsHas(j)
      BY <1>19, <2>1
    <3> QED BY <1>2, <1>18, <3>1, <3>2, RefsStay
  <2>2. CASE v # Null
    BY <1>2, <1>6, <1>7, <1>18, <1>19, <2>2, VfsGains
  <2> QED BY <2>1, <2>2
<1>21. Doomed' /\ DoomedOnce'
  <2>1. \A w \in Vnode : Alive(w)' /\ fRef'[w] = 0 => Alive(w) /\ fRef[w] = 0
    BY <1>2, <1>10 DEF Alive
  <2> QED BY <1>2, <1>4, <1>11, <2>1, DoomsKeep
<1>22. /\ entry' \in [Id -> Entries \cup {Absent}] /\ lock' \in Thread \cup {Nobody}
       /\ owed' \in [Id -> Nat]
  BY <1>2 DEF ConcInv, Types, TypeOK
<1> QED BY <1>2, <1>10, <1>11, <1>15, <1>16, <1>17, <1>20, <1>21, <1>22, CountStep

LEMMA GetStep ==
  ASSUME ConcInv, NEW t \in Thread, Get(t)
  PROVE  ConcInv'
<1>1. PICK i, v : i = thread[t].id /\ v = fIds[thread[t].id]
  OBVIOUS
<1>2. /\ Stage(t) \in {"lookup", "dots", "create"} /\ thread[t].plan # <<>>
      /\ thread[t].todo = <<>> /\ thread[t] \in Calls /\ ~Busy(i)
      /\ Known(i) \/ v # Null
      /\ entry' = [entry EXCEPT ![i] =
                     IF Known(i) THEN [@ EXCEPT !.ref = entry[i].ref + 1]
                     ELSE Entry(v, 1, FALSE, Nobody)]
      /\ fRef' = [u \in Vnode |->
                    IF u = v /\ ~Known(i) THEN fRef[u] + 1 ELSE fRef[u]]
      /\ owed' = [owed EXCEPT ![i] = @ + 1]
      /\ thread' = After(t)
      /\ UNCHANGED <<vn, fNodes, fIds, lock>>
  <2>1. Stage(t) \in {"lookup", "dots", "create"}
    BY AtStage DEF Get, Getting, ConcInv, CallInv
  <2> QED BY <1>1, <2>1, IdleTodo DEF Get, Getting, Doing, DeleteStages, ConcInv, Types
<1>3. PICK s : s = NextStage[Stage(t)]
  OBVIOUS
<1>4. /\ s \in {"unlock", "insert"} /\ s \in Stages /\ s # "idle"
      /\ s \in LockStages /\ Stage(t) \in LockStages
      /\ s \notin BusyStages /\ Stage(t) \notin BusyStages
      /\ s = "insert" <=> Stage(t) = "create"
      /\ s \in TreeStages <=> s = "insert"
      /\ HasTree(t) <=> s = "insert"
  BY <1>2, <1>3, NextStages DEF Stages, LockStages, BusyStages, TreeStages, HasTree
<1>5. PICK c : c = Rec(PlanOf[s], i, thread[t].vnode, thread[t].dir, thread[t].name,
                       <<>>)
  OBVIOUS
<1>6. /\ c.plan = PlanOf[s] /\ c.id = i /\ c.vnode = thread[t].vnode /\ c.todo = <<>>
      /\ c.dir = thread[t].dir /\ c.name = thread[t].name
  BY <1>5, RecIs
<1>7. thread' = [thread EXCEPT ![t] = c]
  BY <1>1, <1>2, <1>3, <1>4, <1>5, AfterIs DEF ConcInv, CallInv
<1>8. c \in Calls
  <2>1. <<>> \in Seq(Vnode)
    OBVIOUS
  <2> QED BY <1>1, <1>2, <1>4, <1>5, <2>1, RecCalls DEF Calls
<1>9. lock = t
  BY <1>2, <1>4 DEF ConcInv, CallInv, LockHeld
<1>10. i \in Id /\ i # Null
  BY <1>1, <1>2, ConcurrencyAssumption DEF ConcInv, CallInv, Looks, Creates
<1>11. ~Known(i) => v \in Vnode /\ Alive(v) /\ IdOf(v) = i /\ fRef[v] # 0
  <2> SUFFICES ASSUME ~Known(i)
               PROVE  v \in Vnode /\ Alive(v) /\ IdOf(v) = i /\ fRef[v] # 0
    OBVIOUS
  <2>1. v \in Vnode /\ Alive(v) /\ IdOf(v) = i
    BY <1>1, <1>2, <1>10 DEF ConcInv, Types, TypeOK, IdsExact
  <2> QED BY <1>2, <1>9, <1>10, <2>1, NoDoom
<1>12. owed' \in [Id -> Nat] /\ lock' \in Thread \cup {Nobody}
  BY <1>2, <1>10 DEF ConcInv, Types, TypeOK
<1>13. ASSUME Moves(t, c, s) PROVE CallInv(t)'
  <2>1. s \in TreeStages =>
          c.vnode \in Vnode /\ Alive(c.vnode)' /\ ~Linked(c.vnode)'
    BY <1>2, <1>4, <1>6 DEF ConcInv, CallInv, TreeHeld, Alive, Linked
  <2>2. s = "insert" =>
          /\ IdOf(c.vnode)' = c.id
          /\ c.name \in Name /\ Reachable(c.dir)' /\ fNodes'[c.dir][c.name] = Null
    <3>1. s = "insert" =>
            /\ IdOf(c.vnode) = c.id
            /\ c.name \in Name /\ Reachable(c.dir) /\ fNodes[c.dir][c.name] = Null
      BY <1>1, <1>4, <1>6 DEF ConcInv, CallInv, Creates
    <3> QED BY <1>2, <3>1 DEF IdOf, Reachable, Alive, Kind, Linked
  <2>3. s \notin {"put", "both", "publish", "create", "lookup", "dots"}
    BY <1>4
  <2> QED BY <1>2, <1>4, <1>6, <1>9, <1>10, <1>13, <2>1, <2>2, <2>3, CallAt
<1>14. ASSUME NEW j \in Id, Busy(j), entry[j].busy = t PROVE FALSE
  BY <1>4, <1>14 DEF ConcInv, BusyOwned
<1>15. CASE Known(i)
  <2>1. Ready(i) /\ entry[i].ref \in Nat
    BY <1>2, <1>10, <1>15 DEF Busy, Ready, ConcInv, Types, Entries, Known
  <2>2. PICK m \in Nat : m = entry[i].ref + 1
    BY <2>1
  <2>3. entry' = [entry EXCEPT ![i] = [entry[i] EXCEPT !.ref = m]]
    BY <1>2, <1>15, <2>2
  <2>4. SameEntries /\ entry' \in [Id -> Entries \cup {Absent}]
    BY <1>10, <2>1, <2>3, Recounted
  <2>5. fRef' = fRef
    BY <1>2, <1>15 DEF ConcInv, Types, TypeOK
  <2>6. Moves(t, c, s)
    BY <1>2, <1>4, <1>6, <1>7, <1>8, <2>4, <2>5, QuietMoves
    DEF Busy, SameEntries, objects
  <2>7. BusyOwned' /\ \A j \in Id : VfsHas(j)' <=> VfsHas(j)
    BY <1>4, <1>14, <2>4, <2>6, EntriesStay
  <2>8. EntriesLive'
    BY <1>2, <2>4, EntriesLiveStay
  <2>9. UNCHANGED objects
    BY <1>2, <2>5 DEF objects
  <2> QED BY <1>2, <1>4, <1>6, <1>12, <1>13, <2>4, <2>6, <2>7, <2>8, <2>9, StayStep
<1>16. CASE ~Known(i)
  <2>1. PICK e : e = Entry(v, 1, FALSE, Nobody)
    OBVIOUS
  <2>2. e \in Entries /\ e.busy = Nobody /\ e.vnode = v /\ e # Absent
    <3>1. e \in Entries /\ e.busy = Nobody /\ e.vnode = v
      BY <1>11, <1>16, <2>1 DEF Entry, Entries
    <3> QED BY <3>1, EntryNotAbsent
  <2>3. Sets(i, e)
    BY <1>2, <1>10, <1>11, <1>16, <2>1, <2>2, SetsIs
  <2>4. /\ fRef' = [u \in Vnode |-> IF u = v THEN fRef[u] + 1 ELSE fRef[u]]
        /\ fRef' \in [Vnode -> Nat]
        /\ \A w \in Vnode : fRef[w] \in Nat
                            /\ fRef'[w] = IF w = v THEN fRef[w] + 1 ELSE fRef[w]
    BY <1>2, <1>16 DEF ConcInv, Types, TypeOK
  <2>5. Moves(t, c, s)
    <3>1. \A j \in Id : Busy(j) => Busy(j)' /\ entry'[j].busy = entry[j].busy
      BY <1>2, <2>3 DEF Sets, Busy, Known
    <3> QED BY <1>2, <1>4, <1>6, <1>7, <1>8, <1>11, <2>4, <3>1 DEF Moves
  <2>6. /\ BusyOwned'
        /\ \A j \in Id \ {i} : VfsHas(j)' <=> VfsHas(j)
        /\ VfsHas(i)'
    BY <1>4, <1>10, <1>11, <2>2, <2>3, <2>5, EntrySet
  <2>7. ~VfsHas(i)
    BY <1>16 DEF VfsHas, Ready, Busy
  <2>8. CallInv(t)'
    BY <1>13, <2>5
  <2>9. \A w : TreeRef(w)' <=> TreeRef(w)
    <3>1. LockHeld(t)' /\ \A w : Linked(w)' <=> Linked(w)
      BY <1>2, <2>8 DEF CallInv, Linked
    <3> QED BY <1>4, <1>6, <2>5, <3>1, TreeRefs
  <2>10. RefsExact'
    BY <1>2, <1>10, <1>11, <1>16, <2>4, <2>6, <2>7, <2>9, VfsGains
  <2>11. EntriesLive'
    <3>1. \A j \in Id \ {i} : Ready(j)' <=> Ready(j)
      BY <2>3 DEF Sets, Ready, Known
    <3>2. entry'[i].vnode = v
      BY <2>2, <2>3 DEF Sets
    <3> QED BY <1>2, <1>10, <1>11, <1>16, <2>3, <3>1, <3>2
        DEF Sets, ConcInv, EntriesLive, Alive, IdOf
  <2>12. Doomed' /\ DoomedOnce'
    <3>1. \A w \in Vnode : Alive(w)' /\ fRef'[w] = 0 => Alive(w) /\ fRef[w] = 0
      BY <1>2, <2>4 DEF Alive
    <3> QED BY <1>2, <1>6, <2>5, <3>1, DoomsKeep
  <2>13. entry' \in [Id -> Entries \cup {Absent}]
    BY <2>3 DEF Sets
  <2> QED BY <1>2, <1>12, <2>4, <2>5, <2>6, <2>8, <2>10, <2>11, <2>12, <2>13, CountStep
<1> QED BY <1>15, <1>16

\* get_vnode() for "..", when the number is of no vnode.
LEMMA GetFailsStep ==
  ASSUME ConcInv, NEW t \in Thread, GetFails(t)
  PROVE  ConcInv'
<1>1. /\ Stage(t) = "dots" /\ thread[t].todo = <<>> /\ thread[t] \in Calls
      /\ thread[t].plan # <<>> /\ thread' = After(t)
      /\ UNCHANGED <<objects, entry, lock, owed>>
  <2>1. Stage(t) = "dots"
    BY AtStage DEF GetFails, ConcInv, CallInv
  <2> QED BY <2>1, IdleTodo DEF GetFails, Doing, DeleteStages, ConcInv, Types
<1>2. PICK c : c = Rec(PlanOf["unlock"], thread[t].id, thread[t].vnode,
                       thread[t].dir, thread[t].name, <<>>)
  OBVIOUS
<1>3. /\ c.plan = PlanOf["unlock"] /\ c.id = thread[t].id
      /\ c.vnode = thread[t].vnode /\ c.todo = <<>>
  BY <1>2, RecIs
<1>4. thread' = [thread EXCEPT ![t] = c]
  BY <1>1, <1>2, AfterIs, NextStages DEF ConcInv, CallInv
<1>5. c \in Calls /\ "unlock" \in Stages
  <2>1. <<>> \in Seq(Vnode)
    OBVIOUS
  <2>2. "unlock" \in Stages
    BY DEF Stages
  <2> QED BY <1>1, <1>2, <2>1, <2>2, RecCalls DEF Calls
<1>6. SameEntries
  BY <1>1 DEF SameEntries, Known
<1>7. Moves(t, c, "unlock")
  BY <1>1, <1>3, <1>4, <1>5, QuietMoves DEF Busy, Known
<1>8. "unlock" \in LockStages <=> lock' = t
  BY <1>1 DEF ConcInv, CallInv, LockHeld, LockStages
<1>9. ~HasTree(t) /\ "unlock" \notin TreeStages /\ "unlock" \notin BusyStages
  BY <1>1 DEF HasTree, TreeStages, BusyStages
<1>10. CallInv(t)'
  BY <1>3, <1>7, <1>8, <1>9, CallAt
<1>11. BusyOwned' /\ \A i \in Id : VfsHas(i)' <=> VfsHas(i)
  <2>1. Stage(t) \notin BusyStages
    BY <1>1 DEF BusyStages
  <2>2. ASSUME NEW i \in Id, Busy(i), entry[i].busy = t PROVE FALSE
    BY <2>1, <2>2 DEF ConcInv, BusyOwned
  <2> QED BY <1>6, <1>7, <2>1, <2>2, <1>9, EntriesStay
<1>12. EntriesLive'
  BY <1>1, <1>6, EntriesLiveStay DEF objects
<1>13. /\ entry' \in [Id -> Entries \cup {Absent}] /\ lock' \in Thread \cup {Nobody}
       /\ owed' \in [Id -> Nat]
  BY <1>1 DEF ConcInv, Types, TypeOK
<1> QED BY <1>1, <1>3, <1>7, <1>9, <1>10, <1>11, <1>12, <1>13, StayStep

-----------------------------------------------------------------------------
(* Destructors.                                                            *)

\* A directory that is destroyed is empty: the loop of its destructor makes no
\* turn.
LEMMA ReleaseEntryNever ==
  ASSUME ConcInv, NEW t \in Thread, NEW n \in Name, ReleaseEntry(t, n)
  PROVE  FALSE
<1>1. PICK d \in Vnode : /\ d = thread[t].vnode /\ thread[t].todo = <<d>>
                         /\ Alive(d) /\ fRef[d] = 0
  BY DEF ReleaseEntry, ConcInv, CallInv, Destroys
<1>2. fNodes[d][n] # Null
  BY <1>1 DEF ReleaseEntry, Destroyed
<1>3. Reachable(d)
  BY <1>2 DEF ConcInv, TreeOK
<1>4. Linked(d)
  BY <1>3, ConcurrencyAssumption DEF Reachable
<1> QED BY <1>1, <1>4, Counted

LEMMA DeleteStep ==
  ASSUME ConcInv, NEW t \in Thread, Delete(t)
  PROVE  ConcInv'
<1>1. PICK s, v : s = Stage(t) /\ v = thread[t].vnode
  OBVIOUS
<1>2. /\ v \in Vnode /\ Alive(v) /\ fRef[v] = 0 /\ thread[t].todo = <<v>>
      /\ s \in DeleteStages /\ s \in Stages /\ thread[t].plan = PlanOf[s]
      /\ thread[t] \in Calls
  BY <1>1 DEF Delete, MayDestroy, ConcInv, CallInv, Destroys, Planned, Types
<1>3. /\ lock \in {t, Nobody}
      /\ fIds' = [j \in Id |-> IF j = IdOf(v) THEN Null ELSE fIds[j]]
      /\ vn' = [vn EXCEPT ![v] = Absent]
      /\ UNCHANGED <<fRef, fNodes, entry, lock, owed>>
  BY <1>2 DEF Delete, MayDestroy, MayLock, Destroyed
<1>4. PICK c : c = Rec(PlanOf[s], thread[t].id, v, thread[t].dir, thread[t].name,
                       <<>>)
  OBVIOUS
<1>5. c.plan = PlanOf[s] /\ c.id = thread[t].id /\ c.vnode = v /\ c.todo = <<>>
  BY <1>4, RecIs
<1>6. thread' = [thread EXCEPT ![t] = c]
  <2>1. thread' = [thread EXCEPT ![t].todo = <<>>]
    BY <1>2 DEF Delete
  <2>2. PICK q : q = thread[t]
    OBVIOUS
  <2>3. [q EXCEPT !.todo = <<>>] = c
    BY <1>1, <1>2, <1>4, <2>2 DEF Rec, Calls
  <2> QED BY <2>1, <2>2, <2>3
<1>7. c \in Calls
  <2>1. <<>> \in Seq(Vnode)
    OBVIOUS
  <2> QED BY <1>2, <1>4, <2>1, RecCalls DEF Calls
<1>8. /\ s # "idle" /\ s \notin TreeStages /\ ~HasTree(t)
      /\ s \notin {"put", "both", "publish", "create", "insert", "lookup", "dots"}
  BY <1>1, <1>2 DEF DeleteStages, TreeStages, HasTree
<1>9. /\ vn' \in [Vnode -> Objects \cup {Absent}] /\ vn'[v] = Absent
      /\ \A w \in Vnode \ {v} : /\ vn'[w] = vn[w] /\ (Alive(w)' <=> Alive(w))
                                /\ IdOf(w)' = IdOf(w) /\ Kind(w)' = Kind(w)
  <2>1. /\ vn' \in [Vnode -> Objects \cup {Absent}] /\ vn'[v] = Absent
        /\ \A w \in Vnode \ {v} : vn'[w] = vn[w]
    <3>1. vn \in [Vnode -> Objects \cup {Absent}] /\ vn' = [vn EXCEPT ![v] = Absent]
      BY <1>3 DEF ConcInv, Types
    <3> QED BY <1>2, <3>1
  <2> QED BY <2>1 DEF Alive, IdOf, Kind
<1>10. Moves(t, c, s)
  <2>1. \A w \in Vnode : Alive(w) =>
          vn'[w] = vn[w] \/ (thread[t].todo # <<>> /\ w = thread[t].vnode)
    BY <1>1, <1>2, <1>9
  <2>2. \A j \in Id : Busy(j) => Busy(j)' /\ entry'[j].busy = entry[j].busy
    BY <1>3 DEF Busy, Known
  <2> QED BY <1>2, <1>3, <1>5, <1>6, <1>7, <1>8, <2>1, <2>2 DEF Moves
<1>11. SameEntries
  BY <1>3 DEF SameEntries, Known
<1>12. ~HasVfs(t) /\ ~HasVfs(t)'
  BY <1>1, <1>8, <1>10, MovesFacts DEF HasVfs, ConcInv
<1>13. BusyOwned' /\ \A j \in Id : VfsHas(j)' <=> VfsHas(j)
  <2>1. ASSUME NEW j \in Id, Busy(j), entry[j].busy = t PROVE ~VfsHas(j)
    BY <1>12, <2>1 DEF VfsHas, Busy, Ready
  <2> QED BY <1>1, <1>5, <1>10, <1>11, <1>12, <2>1, EntriesStay
<1>14. EntriesLive'
  BY <1>2, <1>9, <1>11, EntriesLiveStay
<1>15. CallInv(t)'
  <2>1. s \in LockStages <=> lock' = t
    BY <1>1, <1>3 DEF ConcInv, CallInv, LockHeld
  <2>2. s \in BusyStages => c.id \in Id /\ Known(c.id)' /\ entry'[c.id].busy = t
    BY <1>1, <1>3, <1>5 DEF ConcInv, CallInv, EntryHeld, Known
  <2> QED BY <1>5, <1>8, <1>10, <2>1, <2>2, CallAt
<1>16. \A u \in Thread : CallInv(u)'
  BY <1>10, <1>15, OthersKeep
<1>17. ~Linked(v) /\ \A w : Linked(w)' <=> Linked(w)
  BY <1>2, <1>3, Counted DEF Linked
<1>18. IdsExact'
  <2>1. fIds' \in [Id -> Vnode \cup {Null}]
        /\ \A j \in Id : fIds'[j] = IF j = IdOf(v) THEN Null ELSE fIds[j]
    BY <1>3 DEF ConcInv, Types, TypeOK
  <2>2. ASSUME NEW j \in Id, fIds'[j] # Null
        PROVE  Alive(fIds[j])' /\ IdOf(fIds[j])' = j
    <3>1. PICK w \in Vnode : w = fIds[j] /\ w = fIds'[j] /\ j # IdOf(v)
      BY <2>1, <2>2 DEF ConcInv, Types, TypeOK
    <3>2. Alive(w) /\ IdOf(w) = j
      BY <3>1, ConcurrencyAssumption DEF ConcInv, IdsExact
    <3>3. Alive(w)' /\ IdOf(w)' = j
      BY <1>9, <3>1, <3>2
    <3> QED BY <3>1, <3>3 DEF Alive, IdOf
  <2>3. ASSUME NEW w \in Vnode, Alive(w)', IdOf(w)' # Null
        PROVE  fIds'[IdOf(w)'] = w
    <3>1. w # v
      BY <1>9, <2>3 DEF Alive
    <3>2. PICK j : j = IdOf(w) /\ j = IdOf(w)' /\ Alive(w)
      BY <1>9, <2>3, <3>1
    <3>3. j \in Id /\ j # IdOf(v) /\ fIds[j] = w
      BY <1>2, <2>3, <3>1, <3>2, IdUnique, IdsTyped, ZenonT(40)
       DEF ConcInv, IdsExact
    <3> QED BY <2>1, <3>2, <3>3
  <2> QED BY <2>2, <2>3 DEF IdsExact
<1>19. TreeOK'
  <2>1. ASSUME NEW d \in Vnode \cup {Root}, Reachable(d) PROVE Reachable(d)'
    BY <1>9, <1>17, <2>1 DEF Reachable
  <2>2. ASSUME NEW d \in Vnode \cup {Root}, NEW n \in Name, fNodes[d][n] # Null
        PROVE  Alive(fNodes[d][n])' /\ IdOf(fNodes[d][n])' # Null
    <3>1. PICK w \in Vnode : w = fNodes[d][n] /\ w = fNodes'[d][n]
      BY <1>3, <2>2 DEF ConcInv, Types, TypeOK
    <3>2. w # v /\ Alive(w) /\ IdOf(w) # Null
      <4>1. Linked(w)
        BY <3>1 DEF Linked
      <4>2. Alive(w) /\ IdOf(w) # Null
        BY <2>2, <3>1, ZenonT(40) DEF ConcInv, TreeOK
      <4> QED BY <1>17, <4>1, <4>2
    <3>3. Alive(w)' /\ IdOf(w)' # Null
      BY <1>9, <3>2
    <3> QED BY <3>1, <3>3 DEF Alive, IdOf
  <2> QED BY <1>3, <2>1, <2>2 DEF ConcInv, TreeOK
<1>20. RefsExact'
  <2>1. \A w : TreeRef(w)' <=> TreeRef(w)
    <3>1. LockHeld(t)'
      BY <1>15 DEF CallInv
    <3> QED BY <1>8, <1>10, <1>17, <3>1, TreeRefs
  <2>2. \A w \in Vnode \ {v} : Alive(w) => (VfsRef(w)' <=> VfsRef(w))
    <3> SUFFICES ASSUME NEW w \in Vnode \ {v}, Alive(w)
                 PROVE  VfsRef(w)' <=> VfsRef(w)
      OBVIOUS
    <3>1. PICK j \in Id \cup {Null} :
            /\ VfsRef(w) <=> j # Null /\ VfsHas(j)
            /\ VfsRef(w)' <=> j # Null /\ VfsHas(j)'
      BY <1>9, VfsRefAt
    <3> QED BY <1>13, <3>1
  <2>3. ~Alive(v)'
    BY <1>9 DEF Alive
  <2> QED BY <1>3, <1>9, <2>1, <2>2, <2>3 DEF ConcInv, RefsExact
<1>21. Doomed' /\ DoomedOnce'
  <2>1. thread'[t] = c /\ \A u \in Thread \ {t} : thread'[u] = thread[u]
    BY <1>10, MovesFacts DEF ConcInv
  <2>2. ASSUME NEW w \in Vnode, Alive(w)', fRef'[w] = 0
        PROVE  \E u \in Thread : thread'[u].todo # <<>> /\ thread'[u].vnode = w
    <3>1. w # v /\ Alive(w) /\ fRef[w] = 0
      BY <1>3, <1>9, <2>2 DEF Alive
    <3>2. PICK u \in Thread : thread[u].todo # <<>> /\ thread[u].vnode = w
      BY <3>1 DEF ConcInv, Doomed
    <3>3. u # t
      BY <1>1, <3>1, <3>2
    <3> QED BY <2>1, <3>2, <3>3
  <2>3. DoomedOnce'
    BY <1>5, <2>1 DEF ConcInv, DoomedOnce
  <2> QED BY <2>2, <2>3 DEF Doomed
<1>22. Types'
  <2>1. thread' \in [Thread -> Calls]
    BY <1>10, MovesFacts DEF ConcInv
  <2>2. fIds' \in [Id -> Vnode \cup {Null}]
    BY <1>3 DEF ConcInv, Types, TypeOK
  <2> QED BY <1>3, <1>9, <2>1, <2>2 DEF ConcInv, Types, TypeOK
<1> QED BY <1>13, <1>14, <1>16, <1>18, <1>19, <1>20, <1>21, <1>22 DEF ConcInv

-----------------------------------------------------------------------------
(* New vnodes.                                                             *)

Makes(v, o) == vn' = [vn EXCEPT ![v] = o] /\ fRef' = [fRef EXCEPT ![v] = 1]
Numbers(i, v) == fIds' = IF i = Null THEN fIds ELSE [fIds EXCEPT ![i] = v]

\* The VFS has nothing to do with a number that is free.
LEMMA FreeNumber ==
  ASSUME ConcInv, NEW i \in Id, fIds[i] = Null
  PROVE  ~VfsHas(i)
<1>1. ASSUME NEW w \in Vnode, Alive(w), IdOf(w) = i PROVE FALSE
  BY <1>1, ConcurrencyAssumption DEF ConcInv, IdsExact
<1>2. ASSUME Ready(i) PROVE FALSE
  BY <1>1, <1>2 DEF ConcInv, EntriesLive
<1>3. ASSUME Busy(i), HasVfs(entry[i].busy) PROVE FALSE
  <2>1. PICK b \in Thread : b = entry[i].busy /\ thread[b].id = i
    BY <1>3 DEF ConcInv, BusyOwned
  <2>2. thread[b].vnode \in Vnode /\ Alive(thread[b].vnode) /\ IdOf(thread[b].vnode) = i
    BY <1>3, <2>1 DEF ConcInv, CallInv, VfsHeld
  <2> QED BY <1>1, <2>2
<1> QED BY <1>2, <1>3 DEF VfsHas

\* A hook makes a vnode, with or without a number, and has its reference.
LEMMA NewStep ==
  ASSUME ConcInv, NEW t \in Thread, Free(t), NEW v \in Vnode, ~Alive(v),
         NEW i \in Id \cup {Null}, NEW o \in Objects, o.id = i,
         NEW s \in {"create", "insert", "take"}, NEW d \in Vnode \cup {Root},
         NEW n \in Name \cup {Null}, lock = Nobody, lock' = t,
         Makes(v, o), Numbers(i, v), Goes(t, Rec(PlanOf[s], i, v, d, n, <<>>)),
         UNCHANGED <<fNodes, entry, owed>>,
         i # Null => fIds[i] = Null,
         s # "take" => i # Null /\ n \in Name /\ Reachable(d) /\ fNodes[d][n] = Null
  PROVE  ConcInv'
<1>1. Stage(t) = "idle" /\ thread[t] = Idle
  BY AtStage DEF ConcInv, CallInv, Free
<1>2. PICK c : c = Rec(PlanOf[s], i, v, d, n, <<>>)
  OBVIOUS
<1>3. /\ c.plan = PlanOf[s] /\ c.id = i /\ c.vnode = v /\ c.todo = <<>>
      /\ c.dir = d /\ c.name = n
  BY <1>2, RecIs
<1>4. /\ s \in Stages /\ s # "idle" /\ s \in LockStages /\ s \notin BusyStages
      /\ s \in TreeStages /\ Stage(t) \notin BusyStages /\ ~HasTree(t)
      /\ s \notin {"put", "both", "publish", "lookup", "dots"}
  BY <1>1 DEF Stages, LockStages, BusyStages, TreeStages, HasTree
<1>5. c \in Calls
  <2>1. <<>> \in Seq(Vnode)
    OBVIOUS
  <2> QED BY <1>2, <1>4, <2>1, RecCalls
<1>6. o # Absent
  BY ConcurrencyAssumption DEF Objects
<1>7. /\ vn' \in [Vnode -> Objects \cup {Absent}] /\ vn'[v] = o
      /\ \A w \in Vnode \ {v} : vn'[w] = vn[w]
  <2>1. vn \in [Vnode -> Objects \cup {Absent}] /\ vn' = [vn EXCEPT ![v] = o]
    BY DEF Makes, ConcInv, Types
  <2> QED BY <2>1
<1>8. /\ Alive(v)' /\ IdOf(v)' = i
      /\ \A w \in Vnode \ {v} : /\ Alive(w)' <=> Alive(w)
                                /\ IdOf(w)' = IdOf(w) /\ Kind(w)' = Kind(w)
  BY <1>6, <1>7 DEF Alive, IdOf, Kind
<1>9. /\ fRef' \in [Vnode -> Nat] /\ fRef'[v] = 1
      /\ \A w \in Vnode \ {v} : fRef'[w] = fRef[w]
  BY DEF Makes, ConcInv, Types, TypeOK
<1>10. /\ fIds' \in [Id -> Vnode \cup {Null}]
       /\ \A j \in Id : fIds'[j] = IF j = i THEN v ELSE fIds[j]
  <2>1. fIds \in [Id -> Vnode \cup {Null}]
    BY DEF ConcInv, Types, TypeOK
  <2>2. CASE i = Null
    BY <2>1, <2>2, ConcurrencyAssumption DEF Numbers
  <2>3. CASE i # Null
    BY <2>1, <2>3 DEF Numbers
  <2> QED BY <2>2, <2>3
<1>11. Moves(t, c, s)
  <2>1. \A w \in Vnode : Alive(w) => w # v
    OBVIOUS
  <2>2. \A j \in Id : Busy(j) => Busy(j)' /\ entry'[j].busy = entry[j].busy
    BY DEF Busy, Known
  <2> QED BY <1>2, <1>3, <1>4, <1>5, <1>7, <1>9, <2>1, <2>2 DEF Moves, Goes
<1>12. ~Linked(v) /\ \A w : Linked(w)' <=> Linked(w)
  BY Linking, ConcurrencyAssumption DEF Linked
<1>13. ASSUME NEW e \in Vnode \cup {Root}, Reachable(e) PROVE Reachable(e)' /\ e # v
  BY <1>8, <1>12, <1>13, ConcurrencyAssumption DEF Reachable
<1>14. CallInv(t)'
  <2>1. s \in {"create", "insert"} =>
          /\ c.id \in Id /\ IdOf(c.vnode)' = c.id
          /\ c.name \in Name /\ Reachable(c.dir)' /\ fNodes'[c.dir][c.name] = Null
    <3>1. s \in {"create", "insert"} => i \in Id /\ n \in Name /\ Reachable(d)'
                                        /\ fNodes'[d][n] = Null
      BY <1>13
    <3> QED BY <1>3, <1>8, <3>1
  <2>2. c.vnode \in Vnode /\ Alive(c.vnode)' /\ ~Linked(c.vnode)'
    BY <1>3, <1>8, <1>12
  <2> QED BY <1>3, <1>4, <1>11, <2>1, <2>2, CallAt
<1>15. \A u \in Thread : CallInv(u)'
  BY <1>11, <1>14, OthersKeep
<1>16. SameEntries
  BY DEF SameEntries, Known
<1>17. BusyOwned' /\ \A j \in Id : VfsHas(j)' <=> VfsHas(j)
  <2>1. ASSUME NEW j \in Id, Busy(j), entry[j].busy = t PROVE FALSE
    BY <1>4, <2>1 DEF ConcInv, BusyOwned
  <2> QED BY <1>4, <1>11, <1>16, <2>1, EntriesStay
<1>18. EntriesLive'
  BY <1>7, <1>16, EntriesLiveStay
<1>19. IdsExact'
  <2>1. ASSUME NEW j \in Id, fIds'[j] # Null
        PROVE  Alive(fIds[j])' /\ IdOf(fIds[j])' = j
    <3>1. CASE j = i
      <4>1. fIds'[j] = v
        BY <1>10, <3>1
      <4> QED BY <1>8, <3>1, <4>1 DEF Alive, IdOf
    <3>2. CASE j # i
      <4>1. PICK w \in Vnode : w = fIds[j] /\ w = fIds'[j]
        BY <1>10, <2>1, <3>2
      <4>2. Alive(w) /\ IdOf(w) = j
        BY <2>1, <4>1 DEF ConcInv, IdsExact
      <4>3. Alive(w)' /\ IdOf(w)' = j
        BY <1>8, <4>2
      <4> QED BY <4>1, <4>3 DEF Alive, IdOf
    <3> QED BY <3>1, <3>2
  <2>2. ASSUME NEW w \in Vnode, Alive(w)', IdOf(w)' # Null
        PROVE  fIds'[IdOf(w)'] = w
    <3>1. CASE w = v
      BY <1>8, <1>10, <2>2, <3>1
    <3>2. CASE w # v
      <4>1. PICK j : j = IdOf(w) /\ j = IdOf(w)' /\ Alive(w)
        BY <1>8, <2>2, <3>2
      <4>2. j \in Id /\ fIds[j] = w
        BY <2>2, <4>1, IdsTyped, ZenonT(40) DEF ConcInv, IdsExact
      <4>3. j # i
        BY <4>2, ConcurrencyAssumption
      <4> QED BY <1>10, <4>1, <4>2, <4>3
    <3> QED BY <3>1, <3>2
  <2> QED BY <2>1, <2>2 DEF IdsExact
<1>20. TreeOK'
  <2>1. ASSUME NEW e \in Vnode \cup {Root}, NEW m \in Name, fNodes[e][m] # Null
        PROVE  Alive(fNodes[e][m])' /\ IdOf(fNodes[e][m])' # Null
    <3>1. PICK w \in Vnode : w = fNodes[e][m] /\ w = fNodes'[e][m]
      BY <2>1 DEF ConcInv, Types, TypeOK
    <3>2. Alive(w) /\ IdOf(w) # Null
      BY <2>1, <3>1 DEF ConcInv, TreeOK
    <3>3. Alive(w)' /\ IdOf(w)' # Null
      BY <1>8, <3>2
    <3> QED BY <3>1, <3>3 DEF Alive, IdOf
  <2> QED BY <1>13, <2>1 DEF ConcInv, TreeOK
<1>21. RefsExact'
  <2>1. \A w : TreeRef(w)' <=> TreeRef(w) \/ w = v
    <3>1. LockHeld(t)'
      BY <1>14 DEF CallInv
    <3> QED BY <1>3, <1>4, <1>11, <1>12, <3>1, TreeRefs
  <2>2. ~VfsRef(v)'
    <3>1. i # Null => ~VfsHas(i)'
      BY <1>17, FreeNumber
    <3> QED BY <1>8, <3>1 DEF VfsRef, VfsHas
  <2>3. \A w \in Vnode \ {v} : Alive(w) => (VfsRef(w)' <=> VfsRef(w))
    <3> SUFFICES ASSUME NEW w \in Vnode \ {v}, Alive(w)
                 PROVE  VfsRef(w)' <=> VfsRef(w)
      OBVIOUS
    <3>1. PICK j \in Id \cup {Null} :
            /\ VfsRef(w) <=> j # Null /\ VfsHas(j)
            /\ VfsRef(w)' <=> j # Null /\ VfsHas(j)'
      BY <1>7, VfsRefAt
    <3> QED BY <1>17, <3>1
  <2> QED BY <1>8, <1>9, <2>1, <2>2, <2>3 DEF ConcInv, RefsExact
<1>22. Doomed' /\ DoomedOnce'
  <2>1. \A w \in Vnode : Alive(w)' /\ fRef'[w] = 0 => Alive(w) /\ fRef[w] = 0
    BY <1>8, <1>9
  <2>2. thread[t].todo = <<>>
    BY <1>1, IdleIs
  <2> QED BY <1>3, <1>11, <2>1, <2>2, DoomsKeep
<1>23. Types'
  <2>1. thread' \in [Thread -> Calls]
    BY <1>11, MovesFacts DEF ConcInv
  <2> QED BY <1>7, <1>9, <1>10, <2>1 DEF ConcInv, Types, TypeOK
<1> QED BY <1>15, <1>17, <1>18, <1>19, <1>20, <1>21, <1>22, <1>23 DEF ConcInv

LEMMA CalledReachable ==
  ASSUME ConcInv, NEW d \in Vnode \cup {Root}, Called(d), d = Root \/ Linked(d)
  PROVE  Reachable(d)
BY ConcurrencyAssumption DEF ConcInv, EntriesLive, Called, Reachable

LEMMA CreationIs ==
  ASSUME ConcInv, NEW t \in Thread, NEW d, NEW p, NEW i, NEW v, NEW n,
         Creation(t, d, n, v, i, p)
  PROVE  Goes(t, Rec(p, i, v, d, n, <<>>))
<1>1. PICK r : r = Rec(p, i, v, d, Null, <<>>)
  OBVIOUS
<1>2. [r EXCEPT !.name = n] = Rec(p, i, v, d, n, <<>>)
  BY <1>1 DEF Rec
<1>3. CallOn(t, d, p, i, v) = [thread EXCEPT ![t] = r]
  BY <1>1, CallOnIs
<1>4. thread' = [thread EXCEPT ![t] = [r EXCEPT !.name = n]]
  BY <1>3 DEF Creation, ConcInv, Types
<1> QED BY <1>2, <1>4 DEF Goes

LEMMA ObjectIs ==
  ASSUME NEW k \in {"dir", "file"}, NEW i \in Id \cup {Null},
         NEW d \in Vnode \cup {Root}
  PROVE  Object(k, i, d) \in Objects /\ Object(k, i, d).id = i
<1>1. PICK p \in Vnode \cup {Root, Null} : p = IF k = "dir" THEN d ELSE Null
  OBVIOUS
<1>2. Object(k, i, d) = [kind |-> k, id |-> i, parent |-> p]
  BY <1>1 DEF Object
<1> QED BY <1>2 DEF Objects

LEMMA NewVnodeStep ==
  ASSUME ConcInv, CreateInRemoved = FALSE, NEW t \in Thread,
         NEW d \in Vnode \cup {Root}, NEW n \in Name, NEW k \in {"dir", "file"},
         NEW v \in Vnode, NEW i \in Id, NEW s \in {"create", "insert"},
         NewVnode(t, d, n, k, v, i), Creation(t, d, n, v, i, PlanOf[s])
  PROVE  ConcInv'
<1>1. /\ Free(t) /\ lock = Nobody /\ lock' = t /\ ~Alive(v) /\ fIds[i] = Null
      /\ fNodes[d][n] = Null /\ Called(d) /\ (d = Root \/ Linked(d))
      /\ UNCHANGED <<fNodes, entry, owed>>
  BY DEF NewVnode, Lock
<1>2. Reachable(d)
  BY <1>1, CalledReachable
<1>3. PICK o \in Objects : o = Object(k, i, d) /\ o.id = i
  BY ObjectIs
<1>4. Makes(v, o) /\ o.id = i
  BY <1>3 DEF NewVnode, Makes
<1>5. i # Null
  BY ConcurrencyAssumption
<1>6. Numbers(i, v)
  BY <1>5 DEF NewVnode, Numbers
<1>7. Goes(t, Rec(PlanOf[s], i, v, d, n, <<>>))
  BY CreationIs
<1> QED BY <1>1, <1>2, <1>4, <1>5, <1>6, <1>7, NewStep

LEMMA CreateStep ==
  ASSUME ConcInv, CreateInRemoved = FALSE, NEW t \in Thread,
         NEW d \in Vnode \cup {Root}, NEW n \in Name, NEW v \in Vnode, NEW i \in Id,
         Create(t, d, n, v, i) \/ CreateDir(t, d, n, v, i)
  PROVE  ConcInv'
<1>1. CASE Create(t, d, n, v, i)
  BY <1>1, NewVnodeStep, Plans DEF Create
<1>2. CASE CreateDir(t, d, n, v, i)
  BY <1>2, NewVnodeStep, Plans DEF CreateDir
<1> QED BY <1>1, <1>2

LEMMA NewVnodeFailsStep ==
  ASSUME ConcInv, NEW t \in Thread, NEW d \in Vnode \cup {Root}, NEW n \in Name,
         NEW k \in {"dir", "file"}, NEW v \in Vnode, NewVnodeFails(t, d, n, k, v)
  PROVE  ConcInv'
<1>1. /\ Free(t) /\ lock = Nobody /\ lock' = t /\ ~Alive(v)
      /\ UNCHANGED <<fNodes, entry, owed>>
  BY DEF NewVnodeFails, Lock
<1>2. PICK i \in Id \cup {Null} : i = Null
  OBVIOUS
<1>3. PICK o \in Objects : o = Object(k, i, d) /\ o.id = i
  BY ObjectIs
<1>4. Makes(v, o) /\ o.id = i
  BY <1>2, <1>3 DEF NewVnodeFails, Makes
<1>5. Numbers(i, v)
  BY <1>2 DEF NewVnodeFails, Numbers
<1>6. Goes(t, Rec(PlanOf["take"], i, v, d, Null, <<>>))
  BY <1>2, CallOnIs, Plans DEF NewVnodeFails, Goes
<1>7. "take" \in {"create", "insert", "take"} /\ Null \in Name \cup {Null}
  OBVIOUS
<1> QED BY <1>1, <1>2, <1>4, <1>5, <1>6, <1>7, NewStep

-----------------------------------------------------------------------------
(* Turns that change a directory.                                          *)

LinkSet(d, n, v) ==
  /\ fNodes' \in [Vnode \cup {Root} -> [Name -> Vnode \cup {Null}]]
  /\ fNodes'[d][n] = v
  /\ \A e \in Vnode \cup {Root}, m \in Name :
       e # d \/ m # n => fNodes'[e][m] = fNodes[e][m]

LEMMA LinkSetIs ==
  ASSUME ConcInv, NEW d \in Vnode \cup {Root}, NEW n \in Name,
         NEW v \in Vnode \cup {Null}, fNodes' = [fNodes EXCEPT ![d][n] = v]
  PROVE  LinkSet(d, n, v)
BY DEF LinkSet, ConcInv, Types, TypeOK

LEMMA TreeAt ==
  ASSUME ConcInv, NEW d \in Vnode \cup {Root}, NEW n \in Name, NEW w \in Vnode,
         fNodes[d][n] = w
  PROVE  Alive(w) /\ IdOf(w) # Null /\ Reachable(d)
BY ConcurrencyAssumption DEF ConcInv, TreeOK

LEMMA TreeOnce ==
  ASSUME ConcInv, NEW e \in Vnode \cup {Root}, NEW m \in Name, fNodes[e][m] # Null
  PROVE  \A f \in Vnode \cup {Root}, q \in Name :
           fNodes[f][q] = fNodes[e][m] => f = e /\ q = m
BY DEF ConcInv, TreeOK

LEMMA LinkStep ==
  ASSUME ConcInv, NEW t \in Thread, NEW c, NEW s, Moves(t, c, s),
         vn' = vn, fRef' = fRef, fIds' = fIds,
         fNodes' \in [Vnode \cup {Root} -> [Name -> Vnode \cup {Null}]],
         thread[t].todo = <<>>, c.todo = <<>>,
         entry' \in [Id -> Entries \cup {Absent}], lock' \in Thread \cup {Nobody},
         owed' \in [Id -> Nat],
         CallInv(t)', BusyOwned', EntriesLive', TreeOK',
         \A w \in Vnode : TreeRef(w)' <=> TreeRef(w),
         \A i \in Id : VfsHas(i)' <=> VfsHas(i)
  PROVE  ConcInv'
<1>1. Types'
  <2>1. thread' \in [Thread -> Calls]
    BY MovesFacts DEF ConcInv
  <2> QED BY <2>1 DEF ConcInv, Types, TypeOK
<1>2. \A u \in Thread : CallInv(u)'
  BY OthersKeep
<1>3. IdsExact'
  BY DEF ConcInv, IdsExact, Alive, IdOf
<1>4. RefsExact'
  BY RefsStay
<1>5. Doomed' /\ DoomedOnce'
  <2>1. \A v \in Vnode : Alive(v)' /\ fRef'[v] = 0 => Alive(v) /\ fRef[v] = 0
    BY DEF Alive
  <2> QED BY <2>1, DoomsKeep
<1> QED BY <1>1, <1>2, <1>3, <1>4, <1>5 DEF ConcInv

LEMMA InsertStep ==
  ASSUME ConcInv, NEW t \in Thread, Insert(t)
  PROVE  ConcInv'
<1>1. PICK d, n, v, i : /\ d = thread[t].dir /\ n = thread[t].name
                        /\ v = thread[t].vnode /\ i = thread[t].id
  OBVIOUS
<1>2. /\ Stage(t) = "insert" /\ thread[t].plan # <<>> /\ thread[t].todo = <<>>
      /\ thread[t] \in Calls
      /\ fNodes' = [fNodes EXCEPT ![d][n] = v]
      /\ thread' = After(t)
      /\ UNCHANGED <<vn, fRef, fIds, entry, lock, owed>>
  <2>1. Stage(t) = "insert"
    BY AtStage DEF Insert, ConcInv, CallInv
  <2> QED BY <1>1, <2>1, IdleTodo DEF Insert, Doing, DeleteStages, ConcInv, Types
<1>3. PICK c : c = Rec(PlanOf["unlock"], i, v, d, n, <<>>)
  OBVIOUS
<1>4. c.plan = PlanOf["unlock"] /\ c.todo = <<>>
  BY <1>3, RecIs
<1>5. thread' = [thread EXCEPT ![t] = c]
  BY <1>1, <1>2, <1>3, AfterIs, NextStages DEF ConcInv, CallInv
<1>6. c \in Calls /\ "unlock" \in Stages
  <2>1. <<>> \in Seq(Vnode) /\ "unlock" \in Stages
    BY DEF Stages
  <2> QED BY <1>1, <1>2, <1>3, <2>1, RecCalls DEF Calls
<1>7. /\ HasTree(t) /\ Stage(t) \in LockStages /\ Stage(t) \notin BusyStages
      /\ "unlock" \in LockStages /\ "unlock" \notin BusyStages
      /\ "unlock" \notin TreeStages
  BY <1>2 DEF HasTree, TreeStages, LockStages, BusyStages
<1>8. lock = t
  BY <1>7 DEF ConcInv, CallInv, LockHeld
<1>9. /\ v \in Vnode /\ Alive(v) /\ ~Linked(v) /\ IdOf(v) \in Id
      /\ n \in Name /\ Reachable(d) /\ d \in Vnode \cup {Root}
      /\ fNodes[d][n] = Null
  <2>1. v \in Vnode /\ Alive(v) /\ ~Linked(v)
    BY <1>1, <1>7 DEF ConcInv, CallInv, TreeHeld
  <2>2. IdOf(v) \in Id /\ n \in Name /\ Reachable(d) /\ fNodes[d][n] = Null
    BY <1>1, <1>2 DEF ConcInv, CallInv, Creates
  <2> QED BY <2>1, <2>2 DEF Reachable
<1>10. LinkSet(d, n, v)
  BY <1>2, <1>9, LinkSetIs
<1>11. Moves(t, c, "unlock")
  <2>1. \A j \in Id : Busy(j) => Busy(j)' /\ entry'[j].busy = entry[j].busy
    BY <1>2 DEF Busy, Known
  <2> QED BY <1>2, <1>4, <1>5, <1>6, <1>8, <2>1 DEF Moves
<1>12. /\ Linked(v)'
       /\ \A w \in Vnode \ {v} : Linked(w)' <=> Linked(w)
  <2>1. Linked(v)'
    BY <1>9, <1>10 DEF LinkSet, Linked
  <2>2. ASSUME NEW w \in Vnode \ {v}, Linked(w) PROVE Linked(w)'
    <3>1. PICK e \in Vnode \cup {Root}, m \in Name : fNodes[e][m] = w
      BY <2>2 DEF Linked
    <3>2. fNodes'[e][m] = w
      BY <1>9, <1>10, <3>1, ConcurrencyAssumption DEF LinkSet
    <3> QED BY <3>2 DEF Linked
  <2>3. ASSUME NEW w \in Vnode \ {v}, Linked(w)' PROVE Linked(w)
    <3>1. PICK e \in Vnode \cup {Root}, m \in Name : fNodes'[e][m] = w
      BY <2>3 DEF Linked
    <3>2. fNodes[e][m] = w
      BY <1>10, <3>1 DEF LinkSet
    <3> QED BY <3>2 DEF Linked
  <2> QED BY <2>1, <2>2, <2>3
<1>13. \A e : Reachable(e) => Reachable(e)'
  BY <1>2, <1>12 DEF Reachable, Alive, Kind
<1>14. TreeOK'
  <2> SUFFICES ASSUME NEW e \in Vnode \cup {Root}, NEW m \in Name,
                      fNodes'[e][m] # Null
               PROVE  /\ Alive(fNodes[e][m])' /\ IdOf(fNodes[e][m])' # Null
                      /\ Reachable(e)'
                      /\ \A f \in Vnode \cup {Root}, q \in Name :
                           fNodes'[f][q] = fNodes'[e][m] => f = e /\ q = m
    BY DEF TreeOK
  <2>1. \A f \in Vnode \cup {Root}, q \in Name : fNodes[f][q] # v
    BY <1>9 DEF Linked
  <2>2. CASE e = d /\ m = n
    <3>1. fNodes'[e][m] = v
      BY <1>10, <2>2 DEF LinkSet
    <3>2. Alive(fNodes[e][m])' /\ IdOf(fNodes[e][m])' # Null
      BY <1>2, <1>9, <3>1, ConcurrencyAssumption DEF Alive, IdOf
    <3>3. \A f \in Vnode \cup {Root}, q \in Name :
            fNodes'[f][q] = v => f = e /\ q = m
      BY <1>10, <2>1, <2>2 DEF LinkSet
    <3> QED BY <1>9, <1>13, <2>2, <3>1, <3>2, <3>3
  <2>3. CASE e # d \/ m # n
    <3>1. PICK w \in Vnode : /\ w = fNodes[e][m] /\ w = fNodes'[e][m] /\ w # v
                             /\ fNodes[e][m] # Null
      BY <1>10, <2>1, <2>3 DEF LinkSet
    <3>2. Alive(fNodes[e][m])' /\ IdOf(fNodes[e][m])' # Null
      BY <1>2, <3>1, TreeAt DEF Alive, IdOf
    <3>3. Reachable(e)'
      BY <1>13, <3>1, TreeAt
    <3>4. \A f \in Vnode \cup {Root}, q \in Name :
            fNodes[f][q] = w => f = e /\ q = m
      <4>1. \A f \in Vnode \cup {Root}, q \in Name :
              fNodes[f][q] = fNodes[e][m] => f = e /\ q = m
        BY <3>1, TreeOnce
      <4> QED BY <3>1, <4>1
    <3>5. \A f \in Vnode \cup {Root}, q \in Name :
            fNodes'[f][q] = w => fNodes[f][q] = w
      BY <1>10, <3>1 DEF LinkSet
    <3> QED BY <3>1, <3>2, <3>3, <3>4, <3>5
  <2> QED BY <2>2, <2>3
<1>15. CallInv(t)'
  <2>1. lock' = t
    BY <1>2, <1>8
  <2> QED BY <1>4, <1>7, <1>11, <2>1, CallAt
<1>16. \A w \in Vnode : TreeRef(w)' <=> TreeRef(w)
  <2>1. LockHeld(t)'
    BY <1>15 DEF CallInv
  <2>2. /\ \A w : TreeRef(w) <=> \/ Linked(w) \/ v = w \/ OtherTree(t, w)
        /\ \A w : TreeRef(w)' <=> \/ Linked(w)' \/ OtherTree(t, w)
    BY <1>1, <1>7, <1>11, <2>1, TreeRefs
  <2> QED BY <1>12, <2>2
<1>17. SameEntries
  BY <1>2 DEF SameEntries, Known
<1>18. BusyOwned' /\ \A j \in Id : VfsHas(j)' <=> VfsHas(j)
  <2>1. ASSUME NEW j \in Id, Busy(j), entry[j].busy = t PROVE FALSE
    BY <1>7, <2>1 DEF ConcInv, BusyOwned
  <2> QED BY <1>7, <1>11, <1>17, <2>1, EntriesStay
<1>19. EntriesLive'
  BY <1>2, <1>17, EntriesLiveStay
<1>20. /\ entry' \in [Id -> Entries \cup {Absent}] /\ lock' \in Thread \cup {Nobody}
       /\ owed' \in [Id -> Nat]
       /\ fNodes' \in [Vnode \cup {Root} -> [Name -> Vnode \cup {Null}]]
  BY <1>2, <1>10 DEF ConcInv, Types, TypeOK, LinkSet
<1> QED BY <1>2, <1>4, <1>11, <1>14, <1>15, <1>16, <1>18, <1>19, <1>20, LinkStep

\* A hook takes out the entry of v, which has no entries, and has its reference.
LEMMA TakeStep ==
  ASSUME ConcInv, NEW t \in Thread, Free(t), NEW d \in Vnode \cup {Root},
         NEW n \in Name, NEW v \in Vnode, fNodes[d][n] = v,
         \A m \in Name : fNodes[v][m] = Null,
         NEW i \in Id, IdOf(v) = i, NEW s \in {"take", "both", "rmdir"},
         NEW e \in Entries, lock = Nobody, lock' = t,
         LinkSet(d, n, Null), Goes(t, Rec(PlanOf[s], i, v, d, Null, <<>>)),
         UNCHANGED <<vn, fRef, fIds, owed>>,
         entry' \in [Id -> Entries \cup {Absent}],
         s = "both" => Ready(i) /\ Sets(i, e) /\ e.busy = t,
         s # "both" => SameEntries
  PROVE  ConcInv'
<1>1. Stage(t) = "idle" /\ thread[t] = Idle
  BY AtStage DEF ConcInv, CallInv, Free
<1>2. PICK c : c = Rec(PlanOf[s], i, v, d, Null, <<>>)
  OBVIOUS
<1>3. c.plan = PlanOf[s] /\ c.id = i /\ c.vnode = v /\ c.todo = <<>>
  BY <1>2, RecIs
<1>4. /\ s \in Stages /\ s # "idle" /\ s \in LockStages /\ s \in TreeStages
      /\ s \in BusyStages <=> s = "both"
      /\ Stage(t) \notin BusyStages /\ ~HasTree(t)
      /\ s \notin {"put", "publish", "create", "insert", "lookup", "dots"}
  BY <1>1 DEF Stages, LockStages, BusyStages, TreeStages, HasTree
<1>5. c \in Calls
  <2>1. <<>> \in Seq(Vnode)
    OBVIOUS
  <2> QED BY <1>2, <1>4, <2>1, RecCalls
<1>6. v # Null /\ Alive(v) /\ Linked(v)
  BY ConcurrencyAssumption DEF ConcInv, TreeOK, Linked
<1>7. e # Absent /\ e \in Entries \cup {Absent}
  BY EntryNotAbsent
<1>8. Moves(t, c, s)
  <2>1. \A j \in Id : Busy(j) => Busy(j)' /\ entry'[j].busy = entry[j].busy
    <3>1. CASE s = "both"
      BY <3>1 DEF Sets, Busy, Ready, Known
    <3>2. CASE s # "both"
      BY <3>2 DEF SameEntries, Busy
    <3> QED BY <3>1, <3>2
  <2> QED BY <1>2, <1>3, <1>4, <1>5, <2>1 DEF Moves, Goes
<1>9. /\ ~Linked(v)'
      /\ \A w \in Vnode \ {v} : Linked(w)' <=> Linked(w)
  <2>1. \A f \in Vnode \cup {Root}, q \in Name : fNodes[f][q] = v => f = d /\ q = n
    BY <1>6 DEF ConcInv, TreeOK
  <2>2. ~Linked(v)'
    BY <1>6, <2>1 DEF LinkSet, Linked
  <2>3. ASSUME NEW w \in Vnode \ {v}, Linked(w) PROVE Linked(w)'
    <3>1. PICK f \in Vnode \cup {Root}, m \in Name : fNodes[f][m] = w
      BY <2>3 DEF Linked
    <3>2. fNodes'[f][m] = w
      BY <3>1 DEF LinkSet
    <3> QED BY <3>2 DEF Linked
  <2>4. ASSUME NEW w \in Vnode \ {v}, Linked(w)' PROVE Linked(w)
    <3>1. PICK f \in Vnode \cup {Root}, m \in Name : fNodes'[f][m] = w
      BY <2>4 DEF Linked
    <3>2. fNodes[f][m] = w
      BY <3>1, ConcurrencyAssumption DEF LinkSet
    <3> QED BY <3>2 DEF Linked
  <2> QED BY <2>2, <2>3, <2>4
<1>10. \A f : Reachable(f) /\ f # v => Reachable(f)'
  BY <1>9 DEF Reachable, Alive, Kind
<1>11. TreeOK'
  <2> SUFFICES ASSUME NEW f \in Vnode \cup {Root}, NEW m \in Name,
                      fNodes'[f][m] # Null
               PROVE  /\ Alive(fNodes[f][m])' /\ IdOf(fNodes[f][m])' # Null
                      /\ Reachable(f)'
                      /\ \A g \in Vnode \cup {Root}, q \in Name :
                           fNodes'[g][q] = fNodes'[f][m] => g = f /\ q = m
    BY DEF TreeOK
  <2>1. PICK w \in Vnode : /\ w = fNodes[f][m] /\ w = fNodes'[f][m]
                           /\ fNodes[f][m] # Null
    BY DEF LinkSet
  <2>2. f # v
    BY <2>1
  <2>3. Alive(fNodes[f][m])' /\ IdOf(fNodes[f][m])' # Null
    <3>1. Alive(w) /\ IdOf(w) # Null
      BY <2>1, TreeAt
    <3> QED BY <2>1, <3>1 DEF Alive, IdOf
  <2>4. Reachable(f)'
    BY <1>10, <2>1, <2>2, TreeAt
  <2>5. \A g \in Vnode \cup {Root}, q \in Name :
          fNodes[g][q] = w => g = f /\ q = m
    <3>1. \A g \in Vnode \cup {Root}, q \in Name :
            fNodes[g][q] = fNodes[f][m] => g = f /\ q = m
      BY <2>1, TreeOnce
    <3> QED BY <2>1, <3>1
  <2>6. \A g \in Vnode \cup {Root}, q \in Name :
          fNodes'[g][q] = w => fNodes[g][q] = w
    BY ConcurrencyAssumption DEF LinkSet
  <2> QED BY <2>1, <2>3, <2>4, <2>5, <2>6
<1>12. CallInv(t)'
  <2>1. c.vnode \in Vnode /\ Alive(c.vnode)' /\ IdOf(c.vnode)' = c.id /\ ~Linked(c.vnode)'
    BY <1>3, <1>6, <1>9 DEF Alive, IdOf
  <2>2. s = "both" => Known(c.id)' /\ entry'[c.id].busy = t
    BY <1>3, <1>7 DEF Sets, Known
  <2> QED BY <1>3, <1>4, <1>8, <2>1, <2>2, CallAt
<1>13. \A w \in Vnode : TreeRef(w)' <=> TreeRef(w)
  <2>1. LockHeld(t)'
    BY <1>12 DEF CallInv
  <2>2. /\ \A w : TreeRef(w) <=> \/ Linked(w) \/ OtherTree(t, w)
        /\ \A w : TreeRef(w)' <=> \/ Linked(w)' \/ v = w \/ OtherTree(t, w)
    BY <1>3, <1>4, <1>8, <2>1, TreeRefs
  <2> QED BY <1>6, <1>9, <2>2
<1>14. /\ BusyOwned' /\ EntriesLive'
       /\ \A j \in Id : VfsHas(j)' <=> VfsHas(j)
  <2>1. CASE s = "both"
    <3>1. /\ BusyOwned'
          /\ \A j \in Id \ {i} : VfsHas(j)' <=> VfsHas(j)
          /\ VfsHas(i)' <=> HasVfs(t)'
      BY <1>3, <1>4, <1>7, <1>8, <2>1, EntrySet, ConcurrencyAssumption
    <3>2. HasVfs(t)'
      BY <1>8, <2>1, MovesFacts DEF ConcInv
    <3>3. VfsHas(i)
      BY <2>1 DEF VfsHas
    <3>4. EntriesLive'
      <4>1. \A j \in Id : Ready(j)' => Ready(j) /\ entry'[j] = entry[j]
        BY <1>7, <2>1, ConcurrencyAssumption DEF Sets, Ready, Known
      <4> QED BY <4>1 DEF ConcInv, EntriesLive, Alive, IdOf
    <3> QED BY <3>1, <3>2, <3>3, <3>4
  <2>2. CASE s # "both"
    <3>1. ASSUME NEW j \in Id, Busy(j), entry[j].busy = t PROVE FALSE
      BY <1>4, <3>1 DEF ConcInv, BusyOwned
    <3>2. BusyOwned' /\ \A j \in Id : VfsHas(j)' <=> VfsHas(j)
      BY <1>4, <1>8, <2>2, <3>1, EntriesStay
    <3>3. EntriesLive'
      BY <2>2, EntriesLiveStay
    <3> QED BY <3>2, <3>3
  <2> QED BY <2>1, <2>2
<1>15. /\ lock' \in Thread \cup {Nobody} /\ owed' \in [Id -> Nat]
       /\ fNodes' \in [Vnode \cup {Root} -> [Name -> Vnode \cup {Null}]]
  BY DEF ConcInv, Types, TypeOK, LinkSet
<1>16. thread[t].todo = <<>>
  BY <1>1, IdleIs
<1> QED BY <1>3, <1>8, <1>11, <1>12, <1>13, <1>14, <1>15, <1>16, LinkStep

LEMMA NamedVnode ==
  ASSUME ConcInv, NEW d \in Vnode \cup {Root}, NEW n \in Name, fNodes[d][n] # Null
  PROVE  /\ fNodes[d][n] \in Vnode /\ Alive(fNodes[d][n])
         /\ IdOf(fNodes[d][n]) \in Id
<1>1. fNodes[d][n] \in Vnode
  BY DEF ConcInv, Types, TypeOK
<1> QED BY <1>1, IdsTyped DEF ConcInv, TreeOK

LEMMA ConcatOf ==
  ASSUME NEW a, NEW b, NEW c, NEW d, NEW e, NEW f
  PROVE  <<a, b, c>> \o <<d, e, f>> = <<a, b, c, d, e, f>>
<1>1. PICK S : /\ a \in S /\ b \in S /\ c \in S
               /\ d \in S /\ e \in S /\ f \in S
  <2>1. PICK S : S = {a, b, c, d, e, f}
    OBVIOUS
  <2> QED BY <2>1
<1>2. PICK p \in Seq(S), q \in Seq(S), r \in Seq(S) :
        p = <<a, b, c>> /\ q = <<d, e, f>> /\ r = <<a, b, c, d, e, f>>
  <2>1. <<a, b, c>> \in Seq(S) /\ <<d, e, f>> \in Seq(S)
    BY <1>1, SeqsOf
  <2>2. <<a, b, c, d, e, f>> \in Seq(S)
    BY <1>1, SeqsOf
  <2> QED BY <2>1, <2>2
<1>3. /\ Len(p) = 3 /\ p[1] = a /\ p[2] = b /\ p[3] = c
      /\ Len(q) = 3 /\ q[1] = d /\ q[2] = e /\ q[3] = f
  BY <1>2
<1>4. /\ Len(r) = 6 /\ r[1] = a /\ r[2] = b /\ r[3] = c
      /\ r[4] = d /\ r[5] = e /\ r[6] = f
  BY <1>2
<1>5. /\ p \o q \in Seq(S) /\ Len(p \o q) = 6
      /\ \A k \in 1 .. 6 : (p \o q)[k] = IF k <= 3 THEN p[k] ELSE q[k - 3]
  BY <1>2, <1>3, ConcatProperties
<1>6. \A k \in 1 .. 6 : (p \o q)[k] = r[k]
  BY <1>3, <1>4, <1>5
<1> QED BY <1>2, <1>4, <1>5, <1>6, SeqEqual, ZenonT(40)

LEMMA UnlinkStep ==
  ASSUME ConcInv, NEW t \in Thread, NEW d \in Vnode \cup {Root}, NEW n \in Name,
         Unlink(t, d, n)
  PROVE  ConcInv'
<1>1. PICK v, i : v = fNodes[d][n] /\ i = IdOf(v)
  OBVIOUS
<1>2. PICK rest : rest = <<"release", "delete", "unlock">>
  OBVIOUS
<1>3. /\ Free(t) /\ lock = Nobody /\ lock' = t /\ v # Null /\ Kind(v) = "file"
      /\ fNodes' = [fNodes EXCEPT ![d][n] = Null]
      /\ UNCHANGED <<vn, fRef, fIds, owed>>
      /\ IF Ready(i) /\ entry[i].ref = 0
         THEN /\ entry' = [entry EXCEPT ![i] = Entry(v, 0, TRUE, t)]
              /\ thread' = CallOn(t, d, <<"release", "delete", "drop">> \o rest, i, v)
         ELSE /\ entry' = [entry EXCEPT ![i] =
                   IF Ready(i) THEN [@ EXCEPT !.removed = TRUE] ELSE @]
              /\ thread' = CallOn(t, d, rest, i, v)
  BY <1>1, <1>2 DEF Unlink, Lock
<1>4. v \in Vnode /\ Alive(v) /\ i \in Id
  BY <1>1, <1>3, NamedVnode
<1>5. \A m \in Name : fNodes[v][m] = Null
  <2>1. ~Reachable(v)
    BY <1>3, <1>4, ConcurrencyAssumption DEF Reachable
  <2> QED BY <1>4, <2>1 DEF ConcInv, TreeOK
<1>6. LinkSet(d, n, Null)
  BY <1>3, LinkSetIs
<1>7. PICK e \in Entries : e = Entry(v, 0, TRUE, t) /\ e.busy = t
  <2>1. Entry(v, 0, TRUE, t) \in Entries /\ Entry(v, 0, TRUE, t).busy = t
    BY <1>4 DEF Entry, Entries
  <2> QED BY <2>1
<1>8. CASE Ready(i) /\ entry[i].ref = 0
  <2>1. Sets(i, e)
    BY <1>3, <1>4, <1>7, <1>8, SetsIs
  <2>2. Goes(t, Rec(PlanOf["both"], i, v, d, Null, <<>>))
    <3>1. <<"release", "delete", "drop">> \o <<"release", "delete", "unlock">>
            = <<"release", "delete", "drop", "release", "delete", "unlock">>
      BY ConcatOf
    <3>2. <<"release", "delete", "drop">> \o rest = PlanOf["both"]
      BY <1>2, <3>1, Plans
    <3>3. thread' = CallOn(t, d, PlanOf["both"], i, v)
      BY <1>3, <1>8, <3>2
    <3> QED BY <3>3, CallOnIs DEF Goes
  <2>3. entry' \in [Id -> Entries \cup {Absent}]
    BY <2>1 DEF Sets
  <2>4. "both" \in {"take", "both", "rmdir"}
    OBVIOUS
  <2> QED BY <1>1, <1>3, <1>4, <1>5, <1>6, <1>7, <1>8, <2>1, <2>2, <2>3, <2>4, TakeStep
<1>9. CASE ~(Ready(i) /\ entry[i].ref = 0)
  <2>1. SameEntries /\ entry' \in [Id -> Entries \cup {Absent}]
    <3>1. PICK f : f = IF Ready(i) THEN [entry[i] EXCEPT !.removed = TRUE] ELSE entry[i]
      OBVIOUS
    <3>2. entry' = [entry EXCEPT ![i] = f]
      BY <1>3, <1>9, <3>1
    <3>3. Ready(i) => /\ f \in Entries /\ f.busy = entry[i].busy
                      /\ f.vnode = entry[i].vnode
      BY <1>4, <3>1 DEF ConcInv, Types, Entries, Ready, Known
    <3>4. Ready(i) => f # Absent
      BY <3>3, EntryNotAbsent
    <3> QED BY <1>4, <3>1, <3>2, <3>3, <3>4
        DEF ConcInv, Types, SameEntries, Known, Ready
  <2>2. Goes(t, Rec(PlanOf["take"], i, v, d, Null, <<>>))
    <3>1. thread' = CallOn(t, d, PlanOf["take"], i, v)
      BY <1>2, <1>3, <1>9, Plans
    <3> QED BY <3>1, CallOnIs DEF Goes
  <2>3. "take" \in {"take", "both", "rmdir"}
    OBVIOUS
  <2> QED BY <1>1, <1>3, <1>4, <1>5, <1>6, <1>7, <2>1, <2>2, <2>3, TakeStep
<1> QED BY <1>8, <1>9

LEMMA RemoveDirStep ==
  ASSUME ConcInv, NEW t \in Thread, NEW d \in Vnode \cup {Root}, NEW n \in Name,
         RemoveDir(t, d, n)
  PROVE  ConcInv'
<1>1. PICK v, i : v = fNodes[d][n] /\ i = IdOf(v)
  OBVIOUS
<1>2. /\ Free(t) /\ lock = Nobody /\ lock' = t /\ v # Null /\ Empty(v)
      /\ fNodes' = [fNodes EXCEPT ![d][n] = Null]
      /\ thread' = CallOn(t, d, <<"release", "delete", "mark", "unlock">>, i, v)
      /\ UNCHANGED <<vn, fRef, fIds, entry, owed>>
  BY <1>1 DEF RemoveDir, Lock
<1>3. v \in Vnode /\ Alive(v) /\ i \in Id
  BY <1>1, <1>2, NamedVnode
<1>4. LinkSet(d, n, Null) /\ \A m \in Name : fNodes[v][m] = Null
  BY <1>2, LinkSetIs DEF Empty
<1>5. Goes(t, Rec(PlanOf["rmdir"], i, v, d, Null, <<>>))
  BY <1>2, CallOnIs, Plans DEF Goes
<1>6. SameEntries /\ entry' \in [Id -> Entries \cup {Absent}]
  BY <1>2 DEF SameEntries, Known, ConcInv, Types
<1>7. PICK e \in Entries : e = Entry(v, 0, TRUE, t)
  BY <1>3, EntryIs
<1>8. "rmdir" \in {"take", "both", "rmdir"} /\ "rmdir" # "both"
  OBVIOUS
<1> QED BY <1>1, <1>2, <1>3, <1>4, <1>5, <1>6, <1>7, <1>8, TakeStep

-----------------------------------------------------------------------------
(* The invariant of every behaviour.                                       *)

LEMMA InitInv == Init => ConcInv
<1> SUFFICES ASSUME Init PROVE ConcInv
  OBVIOUS
<1>1. /\ \A v \in Vnode : vn[v] = Absent /\ fRef[v] = 0
      /\ \A d \in Vnode \cup {Root}, n \in Name : fNodes[d][n] = Null
      /\ \A i \in Id : fIds[i] = Null /\ entry[i] = Absent /\ owed[i] = 0
      /\ \A t \in Thread : thread[t] = Idle
      /\ lock = Nobody
  BY DEF Init
<1>2. Types
  BY IdleIs DEF Init, Types, TypeOK
<1>3. ASSUME NEW t \in Thread PROVE CallInv(t)
  <2>1. Stage(t) = "idle" /\ thread[t] = Idle
    BY <1>1, IdleIs DEF Stage
  <2>2. Planned(t)
    BY <2>1, IdleIs DEF Planned
  <2>3. LockHeld(t)
    BY <1>1, <2>1, ConcurrencyAssumption DEF LockHeld, LockStages
  <2>4. EntryHeld(t) /\ Destroys(t)
    BY <2>1, IdleIs DEF EntryHeld, Destroys, BusyStages
  <2>5. TreeHeld(t) /\ VfsHeld(t)
    BY <2>1 DEF TreeHeld, VfsHeld, HasTree, HasVfs, TreeStages
  <2>6. Creates(t) /\ Looks(t)
    BY <2>1 DEF Creates, Looks
  <2> QED BY <2>2, <2>3, <2>4, <2>5, <2>6 DEF CallInv
<1>4. BusyOwned /\ EntriesLive
  BY <1>1 DEF BusyOwned, EntriesLive, Busy, Ready, Known
<1>5. IdsExact /\ TreeOK
  BY <1>1 DEF IdsExact, TreeOK, Alive
<1>6. RefsExact /\ Doomed
  BY <1>1 DEF RefsExact, Doomed, Alive
<1>7. DoomedOnce
  BY <1>1, IdleIs DEF DoomedOnce
<1> QED BY <1>2, <1>3, <1>4, <1>5, <1>6, <1>7 DEF ConcInv

LEMMA StutterStep ==
  ASSUME ConcInv, UNCHANGED vars
  PROVE  ConcInv'
<1>1. /\ vn' = vn /\ fRef' = fRef /\ fNodes' = fNodes /\ fIds' = fIds
      /\ entry' = entry /\ lock' = lock /\ thread' = thread /\ owed' = owed
  BY DEF vars, objects
<1>2. Types'
  BY <1>1 DEF ConcInv, Types, TypeOK
<1>3. ASSUME NEW t \in Thread PROVE CallInv(t)'
  <2>1. CallInv(t)
    BY DEF ConcInv
  <2>2. Stage(t)' = Stage(t)
    BY <1>1 DEF Stage
  <2>3. Planned(t)' /\ LockHeld(t)' /\ EntryHeld(t)'
    BY <1>1, <2>1, <2>2 DEF CallInv, Planned, LockHeld, EntryHeld, Known
  <2>4. Destroys(t)' /\ Looks(t)'
    BY <1>1, <2>1, <2>2 DEF CallInv, Destroys, Looks, Alive, IdOf, Linked
  <2>5. TreeHeld(t)' /\ VfsHeld(t)'
    BY <1>1, <2>1, <2>2
    DEF CallInv, TreeHeld, VfsHeld, HasTree, HasVfs, Alive, IdOf, Linked
  <2>6. Creates(t)'
    BY <1>1, <2>1, <2>2 DEF CallInv, Creates, Reachable, Alive, Kind, IdOf, Linked
  <2> QED BY <2>3, <2>4, <2>5, <2>6 DEF CallInv
<1>4. BusyOwned' /\ EntriesLive'
  BY <1>1 DEF ConcInv, BusyOwned, EntriesLive, Busy, Ready, Known, Stage, Alive, IdOf
<1>5. IdsExact' /\ TreeOK' /\ \A w : Linked(w)' <=> Linked(w)
  BY <1>1, ObjectsStay
<1>6. RefsExact'
  <2>1. \A w \in Vnode : TreeRef(w)' <=> TreeRef(w)
    BY <1>1, <1>5 DEF TreeRef, HasTree, Stage
  <2>2. \A i \in Id : VfsHas(i)' <=> VfsHas(i)
    BY <1>1 DEF VfsHas, Ready, Busy, Known, HasVfs, Stage
  <2> QED BY <1>1, <2>1, <2>2, RefsStay
<1>7. Doomed' /\ DoomedOnce'
  BY <1>1 DEF ConcInv, Doomed, DoomedOnce, Alive
<1> QED BY <1>2, <1>3, <1>4, <1>5, <1>6, <1>7 DEF ConcInv

LEMMA NextInv ==
  ASSUME CreateInRemoved = FALSE, ConcInv, [Next]_vars
  PROVE  ConcInv'
<1>1. CASE UNCHANGED vars
  BY <1>1, StutterStep
<1>2. ASSUME NEW t \in Thread, Step(t) PROVE ConcInv'
  BY <1>2, PublishStep, DropStep, GiveUpStep, ReleaseStep, DeleteStep, DeleteEndsStep,
     GetVnodeStep, GetStep, GetFailsStep, InsertStep, UnlockStep, ReleaseEntryNever,
     MarkStep
  DEF Step
<1>3. ASSUME NEW t \in Thread, NEW i \in Id, GetByNumber(t, i) \/ Put(t, i) \/ Evict(t, i)
      PROVE  ConcInv'
  BY <1>3, GetByNumberStep, PutStep, EvictStep
<1>4. ASSUME NEW t \in Thread, NEW d \in Vnode \cup {Root}, NEW n \in Name,
             \/ Lookup(t, d, n) \/ CreateOpens(t, d, n)
             \/ Unlink(t, d, n) \/ RemoveDir(t, d, n)
      PROVE  ConcInv'
  BY <1>4, LookupStep, CreateOpensStep, UnlinkStep, RemoveDirStep
<1>5. ASSUME NEW t \in Thread, NEW d \in Vnode \cup {Root}, NEW n \in Name,
             NEW v \in Vnode,
             \/ \E i \in Id : Create(t, d, n, v, i) \/ CreateDir(t, d, n, v, i)
             \/ \E k \in {"dir", "file"} : NewVnodeFails(t, d, n, k, v)
      PROVE  ConcInv'
  BY <1>5, CreateStep, NewVnodeFailsStep
<1>6. ASSUME NEW t \in Thread, NEW d \in Vnode, LookupDots(t, d)
      PROVE  ConcInv'
  BY <1>6, LookupDotsStep
<1> QED BY <1>1, <1>2, <1>3, <1>4, <1>5, <1>6 DEF Next

\* Whatever threads do to each other, the invariant holds, as long as no entry is
\* made in a directory that is removed.
THEOREM ConcInvariant ==
  ASSUME CreateInRemoved = FALSE
  PROVE  Spec => []ConcInv
<1>1. Init => ConcInv
  BY InitInv
<1>2. ConcInv /\ [Next]_vars => ConcInv'
  BY NextInv
<1> QED BY <1>1, <1>2, PTL DEF Spec

\* Every variable of the VFS and of the volume has its type.
THEOREM ConcTypeCorrect ==
  ASSUME CreateInRemoved = FALSE
  PROVE  Spec => []TypeOK
<1>1. ConcInv => TypeOK
  BY DEF ConcInv, Types
<1> QED BY <1>1, ConcInvariant, PTL

\* No number, no entry of a directory and no vnode that the VFS uses is of an
\* object that ~ShmfsVnode has freed.
THEOREM ConcNumbersLive ==
  ASSUME CreateInRemoved = FALSE
  PROVE  Spec => []NumbersLive
<1>1. ConcInv => NumbersLive
  BY DEF ConcInv, IdsExact, EntriesLive, TreeOK, NumbersLive
<1> QED BY <1>1, ConcInvariant, PTL

-----------------------------------------------------------------------------
(* What has no reference is never referenced again.                        *)

StayDoomed == \A v \in Vnode : Alive(v) /\ fRef[v] = 0 => fRef'[v] = 0

LEMMA ReleaseDoomed ==
  ASSUME ConcInv, NEW t \in Thread, Release(t)
  PROVE  StayDoomed
<1>1. Stage(t) \in {"put", "take", "both", "rmdir"}
  BY AtStage DEF Release, MayRelease, ConcInv, CallInv
<1>2. HasTree(t) \/ HasVfs(t)
  BY <1>1 DEF HasTree, HasVfs, TreeStages
<1>3. PICK v \in Vnode : v = thread[t].vnode /\ fRef[v] # 0
  BY <1>2, Counted
<1>4. fRef' = [fRef EXCEPT ![v] = @ - 1] /\ fRef \in [Vnode -> Nat]
  BY <1>3 DEF Release, MayRelease, ConcInv, Types, TypeOK
<1> QED BY <1>3, <1>4 DEF StayDoomed

LEMMA GetVnodeDoomed ==
  ASSUME ConcInv, NEW t \in Thread, GetVnode(t)
  PROVE  StayDoomed
<1>1. PICK i, v : i = thread[t].id /\ v = fIds[thread[t].id]
  OBVIOUS
<1>2. /\ Stage(t) = "make" /\ thread[t].todo = <<>> /\ lock = Nobody
      /\ fRef' = [u \in Vnode |-> IF u = v THEN fRef[u] + 1 ELSE fRef[u]]
  <2>1. Stage(t) = "make"
    BY AtStage DEF GetVnode, ConcInv, CallInv
  <2> QED BY <1>1, <2>1, IdleTodo DEF GetVnode, DeleteStages
<1>3. i \in Id /\ Known(i) /\ entry[i].busy = t
  BY <1>1, <1>2 DEF ConcInv, CallInv, EntryHeld, BusyStages
<1>4. v # Null => v \in Vnode /\ Alive(v) /\ IdOf(v) = i
  BY <1>1, <1>3 DEF ConcInv, Types, TypeOK, IdsExact
<1>5. v \in Vnode => fRef[v] # 0
  BY <1>2, <1>3, <1>4, NoDoom, ConcurrencyAssumption
<1> QED BY <1>2, <1>5 DEF StayDoomed

LEMMA GetDoomed ==
  ASSUME ConcInv, NEW t \in Thread, Get(t)
  PROVE  StayDoomed
<1>1. PICK i, v : i = thread[t].id /\ v = fIds[thread[t].id]
  OBVIOUS
<1>2. /\ Stage(t) \in {"lookup", "dots", "create"} /\ thread[t].todo = <<>> /\ ~Busy(i)
      /\ fRef' = [u \in Vnode |->
                    IF u = v /\ ~Known(i) THEN fRef[u] + 1 ELSE fRef[u]]
  <2>1. Stage(t) \in {"lookup", "dots", "create"}
    BY AtStage DEF Get, Getting, ConcInv, CallInv
  <2> QED BY <1>1, <2>1, IdleTodo DEF Get, DeleteStages
<1>3. lock = t
  BY <1>2 DEF ConcInv, CallInv, LockHeld, LockStages
<1>4. i \in Id
  BY <1>1, <1>2 DEF ConcInv, CallInv, Looks, Creates
<1>5. v # Null => v \in Vnode /\ Alive(v) /\ IdOf(v) = i
  BY <1>1, <1>4 DEF ConcInv, Types, TypeOK, IdsExact
<1>6. v \in Vnode => fRef[v] # 0
  BY <1>2, <1>3, <1>4, <1>5, NoDoom, ConcurrencyAssumption
<1> QED BY <1>2, <1>6 DEF StayDoomed

LEMMA NewDoomed ==
  ASSUME ConcInv, NEW v \in Vnode, ~Alive(v), fRef' = [fRef EXCEPT ![v] = 1]
  PROVE  StayDoomed
<1>1. fRef \in [Vnode -> Nat]
  BY DEF ConcInv, Types, TypeOK
<1> QED BY <1>1 DEF StayDoomed

LEMMA NextDoomed ==
  ASSUME ConcInv, [Next]_vars
  PROVE  StayDoomed
<1>1. ASSUME fRef' = fRef PROVE StayDoomed
  BY <1>1 DEF StayDoomed
<1>2. CASE UNCHANGED vars
  BY <1>1, <1>2 DEF vars, objects
<1>3. ASSUME NEW t \in Thread, Step(t) PROVE StayDoomed
  <2>1. CASE Publish(t) \/ Drop(t) \/ GiveUp(t) \/ GetFails(t)
             \/ Delete(t) \/ DeleteEnds(t)
    BY <1>1, <2>1 DEF Publish, Drop, GiveUp, GetFails, Delete, DeleteEnds, objects
  <2>2. CASE Release(t)
    BY <2>2, ReleaseDoomed
  <2>3. CASE GetVnode(t)
    BY <2>3, GetVnodeDoomed
  <2>4. CASE Get(t)
    BY <2>4, GetDoomed
  <2>5. CASE Insert(t) \/ Unlock(t)
    BY <1>1, <2>5 DEF Insert, Unlock, objects
  <2>6. CASE \E n \in Name : ReleaseEntry(t, n)
    BY <2>6, ReleaseEntryNever
  <2>7. CASE \E i \in Id : Mark(t, i)
    BY <1>1, <2>7 DEF Mark, objects
  <2> QED BY <1>3, <2>1, <2>2, <2>3, <2>4, <2>5, <2>6, <2>7 DEF Step
<1>4. ASSUME NEW t \in Thread, NEW i \in Id, GetByNumber(t, i) \/ Put(t, i) \/ Evict(t, i)
      PROVE  StayDoomed
  BY <1>1, <1>4 DEF GetByNumber, Put, Evict, objects
<1>5. ASSUME NEW t \in Thread, NEW d \in Vnode \cup {Root}, NEW n \in Name,
             \/ Lookup(t, d, n) \/ CreateOpens(t, d, n)
             \/ Unlink(t, d, n) \/ RemoveDir(t, d, n)
      PROVE  StayDoomed
  BY <1>1, <1>5 DEF Lookup, LookupId, CreateOpens, Unlink, RemoveDir, objects
<1>6. ASSUME NEW t \in Thread, NEW d \in Vnode \cup {Root}, NEW n \in Name,
             NEW v \in Vnode,
             \/ \E i \in Id : Create(t, d, n, v, i) \/ CreateDir(t, d, n, v, i)
             \/ \E k \in {"dir", "file"} : NewVnodeFails(t, d, n, k, v)
      PROVE  StayDoomed
  <2>1. ~Alive(v) /\ fRef' = [fRef EXCEPT ![v] = 1]
    BY <1>6 DEF Create, CreateDir, NewVnode, NewVnodeFails
  <2> QED BY <2>1, NewDoomed
<1>7. ASSUME NEW t \in Thread, NEW d \in Vnode, LookupDots(t, d)
      PROVE  StayDoomed
  BY <1>1, <1>7 DEF LookupDots, LookupId, objects
<1> QED BY <1>2, <1>3, <1>4, <1>5, <1>6, <1>7 DEF Next

\* ~ShmfsVnode takes the lock to leave fIds after the count has reached zero:
\* neither GetVnode nor a hook that holds the lock acquires the vnode in between.
THEOREM ConcNoResurrection ==
  ASSUME CreateInRemoved = FALSE
  PROVE  Spec => NoResurrection
<1>1. ConcInv /\ [Next]_vars =>
        [\A v \in Vnode : Alive(v) /\ fRef[v] = 0 => fRef'[v] = 0]_vars
  BY NextDoomed DEF StayDoomed
<1> QED BY <1>1, ConcInvariant, PTL DEF Spec, NoResurrection

-----------------------------------------------------------------------------
(* The references, counted.                                                *)

LEMMA CountOne ==
  ASSUME NEW S, NEW x \in S, \A y \in S : y = x
  PROVE  IsFiniteSet(S) /\ Cardinality(S) = 1
<1>1. S = {x}
  OBVIOUS
<1> QED BY <1>1, FS_Singleton

LEMMA CountNone ==
  ASSUME NEW S, \A y \in S : FALSE
  PROVE  IsFiniteSet(S) /\ Cardinality(S) = 0
<1>1. S = {}
  OBVIOUS
<1> QED BY <1>1, FS_EmptySet

LEMMA CountNamed ==
  ASSUME ConcInv, NEW v \in Vnode
  PROVE  Cardinality(Named(v)) = IF Linked(v) THEN 1 ELSE 0
<1>1. CASE Linked(v)
  <2>1. PICK d \in Vnode \cup {Root}, n \in Name : fNodes[d][n] = v
    BY <1>1 DEF Linked
  <2>2. \A e \in Vnode \cup {Root}, m \in Name : fNodes[e][m] = v => e = d /\ m = n
    BY <2>1, TreeOnce, ConcurrencyAssumption
  <2>3. <<d, n>> \in Named(v)
    BY <2>1 DEF Named
  <2>4. ASSUME NEW at \in Named(v) PROVE at = <<d, n>>
    <3>1. PICK e \in Vnode \cup {Root}, m \in Name : at = <<e, m>> /\ fNodes[e][m] = v
      BY DEF Named
    <3> QED BY <2>2, <3>1
  <2> QED BY <1>1, <2>3, <2>4, CountOne
<1>2. CASE ~Linked(v)
  <2>1. ASSUME NEW at \in Named(v) PROVE FALSE
    <3>1. PICK e \in Vnode \cup {Root}, m \in Name : at = <<e, m>> /\ fNodes[e][m] = v
      BY DEF Named
    <3> QED BY <1>2, <3>1 DEF Linked
  <2> QED BY <1>2, <2>1, CountNone
<1> QED BY <1>1, <1>2

\* Where a plan gives up the reference of the tree.
TreeAtStep == [create |-> 2, insert |-> 1, take |-> 1, rmdir |-> 1, both |-> 4,
               bothDelete |-> 3, bothDrop |-> 2]

Gives(s, k) == k \in DOMAIN PlanOf[s] /\ PlanOf[s][k] \in {"release", "insert"}

LEMMA GivesAt ==
  \A s \in Stages, k \in 1 .. 6 :
    Gives(s, k) <=> \/ s \in TreeStages /\ k = TreeAtStep[s]
                    \/ s \in {"put", "both"} /\ k = 1
<1>1. \A s \in {"idle", "publish", "putDrop", "unlock"}, k \in 1 .. 6 : ~Gives(s, k)
  BY Plans DEF Gives
<1>2. \A s \in {"make", "putDelete", "lookup", "dots", "takeDelete", "mark"},
         k \in 1 .. 6 : ~Gives(s, k)
  BY Plans DEF Gives
<1>3. \A k \in 1 .. 6 : Gives("insert", k) <=> k = 1
  BY Plans DEF Gives
<1>4. \A k \in 1 .. 6 : Gives("put", k) <=> k = 1
  BY Plans DEF Gives
<1>5. \A k \in 1 .. 6 : Gives("create", k) <=> k = 2
  BY Plans DEF Gives
<1>6. \A k \in 1 .. 6 : Gives("take", k) <=> k = 1
  BY Plans DEF Gives
<1>7. \A k \in 1 .. 6 : ~Gives("rmdirDelete", k)
  BY Plans DEF Gives
<1>8. \A k \in 1 .. 6 : Gives("bothDrop", k) <=> k = 2
  BY Plans DEF Gives
<1>9. \A k \in 1 .. 6 : Gives("rmdir", k) <=> k = 1
  BY Plans DEF Gives
<1>10. \A k \in 1 .. 6 : Gives("bothDelete", k) <=> k = 3
  BY Plans DEF Gives
<1>11. \A k \in 1 .. 6 : Gives("both", k) <=> k \in {1, 4}
  BY Plans DEF Gives
<1>12. /\ TreeAtStep["create"] = 2 /\ TreeAtStep["insert"] = 1
       /\ TreeAtStep["take"] = 1 /\ TreeAtStep["rmdir"] = 1
       /\ TreeAtStep["both"] = 4 /\ TreeAtStep["bothDelete"] = 3
       /\ TreeAtStep["bothDrop"] = 2
  BY DEF TreeAtStep
<1> QED BY <1>1, <1>2, <1>3, <1>4, <1>5, <1>6, <1>7, <1>8, <1>9, <1>10, <1>11, <1>12
    DEF Stages, TreeStages

TreePart(v) == {at \in Pending(v) : /\ HasTree(at[1])
                                    /\ at[2] = TreeAtStep[Stage(at[1])]}
VfsPart(v) == {at \in Pending(v) : Stage(at[1]) \in {"put", "both"} /\ at[2] = 1}

LEMMA PendingIs ==
  ASSUME ConcInv, NEW v, NEW t \in Thread, NEW k \in 1 .. 6
  PROVE  <<t, k>> \in Pending(v) <=>
           /\ thread[t].vnode = v
           /\ \/ HasTree(t) /\ k = TreeAtStep[Stage(t)]
              \/ Stage(t) \in {"put", "both"} /\ k = 1
<1>1. Stage(t) \in Stages /\ thread[t].plan = PlanOf[Stage(t)]
  BY DEF ConcInv, CallInv, Planned
<1>2. Gives(Stage(t), k) <=> \/ HasTree(t) /\ k = TreeAtStep[Stage(t)]
                             \/ Stage(t) \in {"put", "both"} /\ k = 1
  BY <1>1, GivesAt DEF HasTree
<1>3. <<t, k>> \in Pending(v) <=> thread[t].vnode = v /\ Gives(Stage(t), k)
  BY <1>1 DEF Pending, Gives
<1> QED BY <1>2, <1>3

LEMMA PendingPairs ==
  ASSUME NEW v, NEW at \in Pending(v)
  PROVE  \E t \in Thread, k \in 1 .. 6 : at = <<t, k>> /\ at[1] = t /\ at[2] = k
BY DEF Pending

LEMMA PendingParts ==
  ASSUME ConcInv, NEW v
  PROVE  Pending(v) = TreePart(v) \cup VfsPart(v) /\ TreePart(v) \cap VfsPart(v) = {}
<1>1. ASSUME NEW at \in Pending(v)
      PROVE  /\ at \in TreePart(v) \/ at \in VfsPart(v)
             /\ ~(at \in TreePart(v) /\ at \in VfsPart(v))
  <2>1. PICK t \in Thread, k \in 1 .. 6 : at = <<t, k>> /\ at[1] = t /\ at[2] = k
    BY PendingPairs
  <2>2. \/ HasTree(t) /\ k = TreeAtStep[Stage(t)]
        \/ Stage(t) \in {"put", "both"} /\ k = 1
    <3>1. <<t, k>> \in Pending(v)
      BY <1>1, <2>1
    <3> QED BY <3>1, PendingIs
  <2>3. ~(HasTree(t) /\ k = TreeAtStep[Stage(t)] /\ Stage(t) \in {"put", "both"} /\ k = 1)
    <3>1. TreeAtStep["both"] = 4
      BY DEF TreeAtStep
    <3> QED BY <3>1 DEF HasTree, TreeStages
  <2> QED BY <1>1, <2>1, <2>2, <2>3 DEF TreePart, VfsPart
<1> QED BY <1>1 DEF TreePart, VfsPart

\* The reference of the tree is in the tree or with one call.
LEMMA CountTree ==
  ASSUME ConcInv, NEW v \in Vnode
  PROVE  /\ IsFiniteSet(TreePart(v))
         /\ Cardinality(Named(v)) + Cardinality(TreePart(v))
              = IF TreeRef(v) THEN 1 ELSE 0
<1>1. \A u \in Thread : HasTree(u) => lock = u
  BY DEF ConcInv, CallInv, LockHeld, HasTree, TreeStages, LockStages
<1>2. ASSUME NEW at \in TreePart(v)
      PROVE  /\ lock \in Thread /\ HasTree(lock) /\ thread[lock].vnode = v
             /\ at = <<lock, TreeAtStep[Stage(lock)]>>
  <2>1. PICK t \in Thread, k \in 1 .. 6 : at = <<t, k>> /\ at[1] = t /\ at[2] = k
    BY PendingPairs DEF TreePart
  <2>2. HasTree(t) /\ k = TreeAtStep[Stage(t)] /\ <<t, k>> \in Pending(v)
    BY <1>2, <2>1 DEF TreePart
  <2>3. thread[t].vnode = v
    BY <2>2, PendingIs
  <2> QED BY <1>1, <2>1, <2>2, <2>3
<1>3. CASE lock \in Thread /\ HasTree(lock) /\ thread[lock].vnode = v
  <2>1. PICK t \in Thread, k \in 1 .. 6 : t = lock /\ k = TreeAtStep[Stage(t)]
    <3>1. \A s \in TreeStages : TreeAtStep[s] \in 1 .. 6
      BY DEF TreeStages, TreeAtStep
    <3> QED BY <1>3, <3>1 DEF HasTree
  <2>2. <<t, k>> \in Pending(v)
    BY <1>3, <2>1, PendingIs
  <2>3. <<t, k>> \in TreePart(v)
    BY <1>3, <2>1, <2>2 DEF TreePart
  <2>4. \A at \in TreePart(v) : at = <<t, k>>
    BY <1>2, <2>1
  <2>5. IsFiniteSet(TreePart(v)) /\ Cardinality(TreePart(v)) = 1
    BY <2>3, <2>4, CountOne
  <2>6. ~Linked(v)
    BY <1>3 DEF ConcInv, CallInv, TreeHeld
  <2>7. Cardinality(Named(v)) = 0
    BY <2>6, CountNamed
  <2> QED BY <1>3, <2>5, <2>7 DEF TreeRef
<1>4. CASE ~(lock \in Thread /\ HasTree(lock) /\ thread[lock].vnode = v)
  <2>1. IsFiniteSet(TreePart(v)) /\ Cardinality(TreePart(v)) = 0
    BY <1>2, <1>4, CountNone
  <2>2. Cardinality(Named(v)) = IF Linked(v) THEN 1 ELSE 0
    BY CountNamed
  <2>3. TreeRef(v) <=> Linked(v)
    BY <1>4 DEF TreeRef
  <2> QED BY <2>1, <2>2, <2>3
<1> QED BY <1>3, <1>4

LEMMA HoldersIs ==
  ASSUME ConcInv, NEW v \in Vnode, NEW x \in Holders(v)
  PROVE  \/ x \in Id /\ Ready(x) /\ entry[x].vnode = v
         \/ x \in Thread /\ Stage(x) = "publish" /\ thread[x].vnode = v
<1>1. ASSUME NEW t \in Thread, Doing(t, "publish") PROVE Stage(t) = "publish"
  BY <1>1, AtStage DEF ConcInv, CallInv
<1> QED BY <1>1 DEF Holders

LEMMA VfsCall ==
  ASSUME ConcInv, NEW v \in Vnode, NEW t \in Thread, HasVfs(t), thread[t].vnode = v
  PROVE  /\ IdOf(v) \in Id /\ IdOf(v) # Null /\ Busy(IdOf(v))
         /\ entry[IdOf(v)].busy = t
<1>1. thread[t].id \in Id /\ Known(thread[t].id) /\ entry[thread[t].id].busy = t
  <2>1. Stage(t) \in BusyStages
    BY DEF HasVfs, BusyStages
  <2> QED BY <2>1 DEF ConcInv, CallInv, EntryHeld
<1>2. IdOf(v) = thread[t].id
  BY DEF ConcInv, CallInv, VfsHeld
<1> QED BY <1>1, <1>2, ConcurrencyAssumption DEF Busy

\* The reference of the VFS is that of an entry or with one call.
LEMMA CountVfs ==
  ASSUME ConcInv, NEW v \in Vnode, Alive(v)
  PROVE  /\ IsFiniteSet(VfsPart(v)) /\ Cardinality(Holders(v)) \in Nat
         /\ Cardinality(Holders(v)) + Cardinality(VfsPart(v))
              = IF VfsRef(v) THEN 1 ELSE 0
<1>1. ASSUME NEW i \in Id, Ready(i), entry[i].vnode = v PROVE i = IdOf(v)
  BY <1>1 DEF ConcInv, EntriesLive
<1>2. ASSUME NEW t \in Thread, Stage(t) = "publish", thread[t].vnode = v
      PROVE  HasVfs(t)
  BY <1>2, ConcurrencyAssumption DEF HasVfs
<1>3. ASSUME NEW at \in VfsPart(v)
      PROVE  \E t \in Thread : /\ at = <<t, 1>> /\ Stage(t) \in {"put", "both"}
                               /\ HasVfs(t) /\ thread[t].vnode = v
  <2>1. PICK t \in Thread, k \in 1 .. 6 : at = <<t, k>> /\ at[1] = t /\ at[2] = k
    BY PendingPairs DEF VfsPart
  <2>2. k = 1 /\ Stage(t) \in {"put", "both"} /\ <<t, k>> \in Pending(v)
    BY <1>3, <2>1 DEF VfsPart
  <2>3. thread[t].vnode = v
    BY <2>2, PendingIs
  <2> QED BY <2>1, <2>2, <2>3 DEF HasVfs
<1>4. CASE IdOf(v) # Null /\ Ready(IdOf(v))
  <2>1. PICK i \in Id : i = IdOf(v) /\ Ready(i)
    BY <1>4, IdsTyped
  <2>2. entry[i].vnode = v
    BY <1>4, <2>1, IdUnique DEF ConcInv, EntriesLive
  <2>3. ASSUME NEW t \in Thread, HasVfs(t), thread[t].vnode = v PROVE FALSE
    BY <2>1, <2>3, VfsCall DEF Busy, Ready
  <2>4. i \in Holders(v)
    BY <2>1, <2>2 DEF Holders
  <2>5. \A x \in Holders(v) : x = i
    BY <1>1, <1>2, <2>1, <2>3, HoldersIs
  <2>6. Cardinality(Holders(v)) = 1
    BY <2>4, <2>5, CountOne
  <2>7. IsFiniteSet(VfsPart(v)) /\ Cardinality(VfsPart(v)) = 0
    BY <1>3, <2>3, CountNone
  <2>8. VfsRef(v)
    BY <1>4 DEF VfsRef, VfsHas
  <2> QED BY <2>6, <2>7, <2>8
<1>5. CASE \E t \in Thread : HasVfs(t) /\ thread[t].vnode = v
  <2>1. PICK t \in Thread : HasVfs(t) /\ thread[t].vnode = v
    BY <1>5
  <2>2. PICK i \in Id : i = IdOf(v) /\ i # Null /\ Busy(i) /\ entry[i].busy = t
    BY <2>1, VfsCall
  <2>3. \A u \in Thread : HasVfs(u) /\ thread[u].vnode = v => u = t
    BY <2>2, VfsCall
  <2>4. ASSUME NEW j \in Id, Ready(j), entry[j].vnode = v PROVE FALSE
    BY <1>1, <2>2, <2>4 DEF Busy, Ready
  <2>5. VfsRef(v)
    BY <2>1, <2>2 DEF VfsRef, VfsHas
  <2>6. CASE Stage(t) = "publish"
    <3>1. Doing(t, "publish")
      <4>1. thread[t].plan = PlanOf["publish"]
        BY <2>6 DEF ConcInv, CallInv, Planned
      <4>2. thread[t].plan = <<"publish">>
        BY <4>1, Plans
      <4> QED BY <4>2 DEF Doing
    <3>2. t \in Holders(v)
      BY <2>1, <3>1 DEF Holders
    <3>3. \A x \in Holders(v) : x = t
      BY <1>2, <2>3, <2>4, HoldersIs
    <3>4. Cardinality(Holders(v)) = 1
      BY <3>2, <3>3, CountOne
    <3>5. ASSUME NEW at \in VfsPart(v) PROVE FALSE
      BY <1>3, <2>3, <2>6
    <3>6. IsFiniteSet(VfsPart(v)) /\ Cardinality(VfsPart(v)) = 0
      BY <3>5, CountNone
    <3> QED BY <2>5, <3>4, <3>6
  <2>7. CASE Stage(t) # "publish"
    <3>1. Stage(t) \in {"put", "both"}
      BY <2>1, <2>7 DEF HasVfs
    <3>2. <<t, 1>> \in VfsPart(v)
      <4>1. PICK k \in 1 .. 6 : k = 1
        OBVIOUS
      <4>2. <<t, k>> \in Pending(v)
        BY <2>1, <3>1, <4>1, PendingIs
      <4> QED BY <3>1, <4>1, <4>2 DEF VfsPart
    <3>3. \A at \in VfsPart(v) : at = <<t, 1>>
      BY <1>3, <2>3
    <3>4. IsFiniteSet(VfsPart(v)) /\ Cardinality(VfsPart(v)) = 1
      BY <3>2, <3>3, CountOne
    <3>5. ASSUME NEW x \in Holders(v) PROVE FALSE
      <4>1. x \in Thread /\ Stage(x) = "publish" /\ thread[x].vnode = v
        BY <2>4, HoldersIs
      <4> QED BY <1>2, <2>3, <2>7, <4>1
    <3>6. Cardinality(Holders(v)) = 0
      BY <3>5, CountNone
    <3> QED BY <2>5, <3>4, <3>6
  <2> QED BY <2>6, <2>7
<1>6. CASE /\ ~(IdOf(v) # Null /\ Ready(IdOf(v)))
           /\ \A t \in Thread : ~(HasVfs(t) /\ thread[t].vnode = v)
  <2>1. ASSUME NEW x \in Holders(v) PROVE FALSE
    <3>1. CASE x \in Id /\ Ready(x) /\ entry[x].vnode = v
      BY <1>1, <1>6, <3>1, ConcurrencyAssumption
    <3>2. CASE x \in Thread /\ Stage(x) = "publish" /\ thread[x].vnode = v
      BY <1>2, <1>6, <3>2
    <3> QED BY <3>1, <3>2, HoldersIs
  <2>2. Cardinality(Holders(v)) = 0
    BY <2>1, CountNone
  <2>3. IsFiniteSet(VfsPart(v)) /\ Cardinality(VfsPart(v)) = 0
    BY <1>3, <1>6, CountNone
  <2>4. ~VfsRef(v)
    <3> SUFFICES ASSUME VfsRef(v) PROVE FALSE
      OBVIOUS
    <3>1. PICK i \in Id : i = IdOf(v) /\ i # Null /\ Busy(i) /\ HasVfs(entry[i].busy)
      BY <1>6, IdsTyped DEF VfsRef, VfsHas
    <3>2. PICK b \in Thread : b = entry[i].busy /\ thread[b].id = i
      BY <3>1 DEF ConcInv, BusyOwned
    <3>3. /\ thread[b].vnode \in Vnode /\ Alive(thread[b].vnode)
          /\ IdOf(thread[b].vnode) = i
      BY <3>1, <3>2 DEF ConcInv, CallInv, VfsHeld
    <3>4. thread[b].vnode = v
      BY <3>1, <3>3, IdUnique
    <3> QED BY <1>6, <3>1, <3>2, <3>4
  <2> QED BY <2>2, <2>3, <2>4
<1> QED BY <1>4, <1>5, <1>6

LEMMA CountAll ==
  ASSUME ConcInv
  PROVE  CountsExact
<1> SUFFICES ASSUME NEW v \in Vnode, Alive(v)
             PROVE  fRef[v] = Cardinality(Named(v)) + Cardinality(Holders(v))
                              + Cardinality(Pending(v))
  BY DEF CountsExact
<1>1. /\ IsFiniteSet(TreePart(v))
      /\ Cardinality(Named(v)) + Cardinality(TreePart(v))
           = IF TreeRef(v) THEN 1 ELSE 0
  BY CountTree
<1>2. /\ IsFiniteSet(VfsPart(v)) /\ Cardinality(Holders(v)) \in Nat
      /\ Cardinality(Holders(v)) + Cardinality(VfsPart(v))
           = IF VfsRef(v) THEN 1 ELSE 0
  BY CountVfs
<1>3. Cardinality(Pending(v)) = Cardinality(TreePart(v)) + Cardinality(VfsPart(v))
  <2>1. PICK A, B : A = TreePart(v) /\ B = VfsPart(v)
    OBVIOUS
  <2>2. Pending(v) = A \cup B /\ A \cap B = {}
    BY <2>1, PendingParts
  <2>3. IsFiniteSet(A) /\ IsFiniteSet(B)
    BY <1>1, <1>2, <2>1
  <2>4. Cardinality(A \cup B) = Cardinality(A) + Cardinality(B) - Cardinality(A \cap B)
    BY <2>3, FS_Union
  <2>5. Cardinality(A \cap B) = 0
    BY <2>2, FS_EmptySet
  <2>6. Cardinality(A) \in Nat /\ Cardinality(B) \in Nat
    BY <2>3, FS_CardinalityType
  <2> QED BY <2>1, <2>2, <2>4, <2>5, <2>6
<1>4. fRef[v] = (IF TreeRef(v) THEN 1 ELSE 0) + (IF VfsRef(v) THEN 1 ELSE 0)
  BY DEF ConcInv, RefsExact
<1>5. Cardinality(TreePart(v)) \in Nat /\ Cardinality(VfsPart(v)) \in Nat
  BY <1>1, <1>2, FS_CardinalityType
<1>6. Cardinality(Named(v)) \in Nat
  BY CountNamed
<1> QED BY <1>1, <1>2, <1>3, <1>4, <1>5, <1>6

\* Whatever calls interleave, the count of a vnode is the number of those who
\* have still to release it: the releases outside of the lock lose none.
THEOREM ConcCountsExact ==
  ASSUME CreateInRemoved = FALSE
  PROVE  Spec => []CountsExact
<1>1. ConcInv => CountsExact
  BY CountAll
<1> QED BY <1>1, ConcInvariant, PTL

-----------------------------------------------------------------------------
(* Waiting with the lock.                                                  *)

LEMMA NoWait ==
  ASSUME ConcInv, NEW t \in Thread, NEW u \in Thread,
         Doing(t, "get"), Busy(thread[t].id), u # t, entry[thread[t].id].busy = u
  PROVE  Doing(u, "GetVnode") \/ Unhindered(u)
<1>1. PICK i : i = thread[t].id
  OBVIOUS
<1>2. Stage(t) \in {"lookup", "create"}
  BY AtStage DEF ConcInv, CallInv
<1>3. lock = t
  BY <1>2 DEF ConcInv, CallInv, LockHeld, LockStages
<1>4. i \in Id
  BY <1>1, <1>2 DEF ConcInv, CallInv, Looks, Creates
<1>5. Stage(u) \in BusyStages /\ thread[u].id = i
  BY <1>1, <1>4 DEF ConcInv, BusyOwned
<1>6. Stage(u) \notin LockStages
  BY <1>3 DEF ConcInv, CallInv, LockHeld
<1>7. Stage(u) \in {"make", "publish", "put", "putDelete", "putDrop"}
  BY <1>5, <1>6 DEF BusyStages, LockStages
<1>8. /\ Stage(u) = "make" => Doing(u, "GetVnode")
      /\ Stage(u) = "publish" => Doing(u, "publish")
      /\ Stage(u) = "put" => Doing(u, "release")
      /\ Stage(u) = "putDelete" => Doing(u, "delete")
      /\ Stage(u) = "putDrop" => Doing(u, "drop")
  <2>1. thread[u].plan = PlanOf[Stage(u)]
    BY DEF ConcInv, CallInv, Planned
  <2> QED BY <2>1, Plans DEF Doing
<1>9. ASSUME Stage(u) = "putDelete", thread[u].todo # <<>>
      PROVE  FALSE
  <2>1. PICK v \in Vnode : /\ v = thread[u].vnode /\ Alive(v) /\ fRef[v] = 0
                           /\ IdOf(v) = i
    BY <1>5, <1>9 DEF ConcInv, CallInv, Destroys
  <2>2. fIds[i] = v
    BY <1>4, <2>1, ConcurrencyAssumption DEF ConcInv, IdsExact
  <2>3. Stage(t) = "lookup" => Linked(v)
    BY <1>1, <2>2 DEF ConcInv, CallInv, Looks
  <2>4. Stage(t) = "create" => HasTree(t) /\ thread[t].vnode = v
    <3>1. ASSUME Stage(t) = "create"
          PROVE  /\ HasTree(t) /\ thread[t].vnode \in Vnode /\ Alive(thread[t].vnode)
                 /\ IdOf(thread[t].vnode) = i
      BY <1>1, <3>1 DEF HasTree, TreeStages, ConcInv, CallInv, TreeHeld, Creates
    <3> QED BY <1>4, <2>2, <3>1, ConcurrencyAssumption DEF ConcInv, IdsExact
  <2>5. TreeRef(v)
    BY <1>2, <1>3, <2>3, <2>4 DEF TreeRef
  <2> QED BY <2>1, <2>5 DEF ConcInv, RefsExact
<1> QED BY <1>7, <1>8, <1>9 DEF Unhindered, MayRelease

\* Lookup of a name and Create may wait in get_vnode() for a busy entry with the
\* volume lock in their hands, because what they wait for never is the thread that
\* deletes the vnode of that entry: the tree still has a reference to it.
THEOREM ConcNoWaitForDestructor ==
  ASSUME CreateInRemoved = FALSE
  PROVE  Spec => []NoWaitForDestructor
<1>1. ConcInv => NoWaitForDestructor
  BY NoWait DEF NoWaitForDestructor, WaitsFor
<1> QED BY <1>1, ConcInvariant, PTL

-----------------------------------------------------------------------------
(* What a volume promises, kept while calls overlap.                       *)

Item(d, n, v) == [dir |-> d, name |-> n, node |-> v]

LEMMA ItemIs ==
  ASSUME NEW d, NEW n, NEW v
  PROVE  /\ Item(d, n, v).dir = d /\ Item(d, n, v).name = n
         /\ Item(d, n, v).node = v
         /\ Files!Entry(d, n, v) = Item(d, n, v)
BY DEF Item, Files!Entry

LEMMA ItemsAre ==
  \A r : r \in TreeEntries <=>
    \E d \in Vnode \cup {Root} : \E n \in Name :
      fNodes[d][n] # Null /\ r = Item(d, n, fNodes[d][n])
BY DEF TreeEntries, Item

LEMMA ItemsAreNext ==
  \A r : r \in TreeEntries' <=>
    \E d \in Vnode \cup {Root} : \E n \in Name :
      fNodes'[d][n] # Null /\ r = Item(d, n, fNodes'[d][n])
BY DEF TreeEntries, Item

LEMMA ReachableLive ==
  ASSUME ConcInv', NEW d \in Vnode \cup {Root}, Reachable(d)'
  PROVE  d \in LiveNodes'
<1>1. CASE d = Root
  BY <1>1 DEF LiveNodes
<1>2. CASE d # Root
  <2>1. d \in Vnode /\ Alive(d)' /\ Linked(d)'
    BY <1>2 DEF Reachable
  <2>2. fRef'[d] > 0
    BY <2>1 DEF ConcInv, RefsExact, TreeRef
  <2> QED BY <2>1, <2>2 DEF LiveNodes
<1> QED BY <1>1, <1>2

\* The counts keep the promise, whatever the step: what is left to show of it
\* is which entries there are.
LEMMA SettlesAfter ==
  ASSUME ConcInv', NEW from, LiveNodes' \subseteq from, NEW es, TreeEntries' = es
  PROVE  Files!Settle(from, es)
<1>1. ASSUME NEW r \in es
      PROVE  /\ r.dir \in LiveNodes'
             /\ r.node \in Vnode => Linked(r.node)' /\ r.node \in LiveNodes'
  <2>1. PICK d \in Vnode \cup {Root} : \E n \in Name :
          fNodes'[d][n] # Null /\ r = Item(d, n, fNodes'[d][n])
    BY <1>1, ItemsAreNext
  <2>2. PICK n \in Name : fNodes'[d][n] # Null /\ r = Item(d, n, fNodes'[d][n])
    BY <2>1
  <2>3. r.dir = d /\ r.node = fNodes'[d][n]
    BY <2>2, ItemIs
  <2>4. Reachable(d)' /\ Alive(r.node)'
    BY <2>2, <2>3 DEF ConcInv, TreeOK
  <2>5. Linked(r.node)'
    BY <2>3 DEF Linked
  <2>6. r.node \in Vnode => fRef'[r.node] > 0
    BY <2>4, <2>5 DEF ConcInv, RefsExact, TreeRef
  <2> QED BY <2>3, <2>4, <2>5, <2>6, ReachableLive DEF LiveNodes
<1>2. es = {x \in es : x.dir \in LiveNodes'}
  BY <1>1
<1>3. ASSUME NEW v \in Vnode, Linked(v)'
      PROVE  \E x \in es : x.node = v
  <2>1. PICK d \in Vnode \cup {Root}, n \in Name : fNodes'[d][n] = v
    BY <1>3 DEF Linked
  <2>2. Item(d, n, v) \in TreeEntries'
    BY <2>1, ItemsAreNext, ConcurrencyAssumption
  <2> QED BY <2>2, ItemIs
<1>4. ASSUME NEW v \in Vnode
      PROVE  v \in LiveNodes' <=> v \in UsedNodes' \/ Linked(v)'
  <2>1. v # Root
    BY ConcurrencyAssumption
  <2>2. Alive(v)' /\ Linked(v)' => fRef'[v] > 0
    BY DEF ConcInv, RefsExact, TreeRef
  <2>3. Linked(v)' => Alive(v)'
    BY ConcurrencyAssumption DEF Linked, ConcInv, TreeOK
  <2>4. fRef'[v] \in Nat
    BY DEF ConcInv, Types, TypeOK
  <2> QED BY <2>1, <2>2, <2>3, <2>4 DEF LiveNodes, UsedNodes
<1>5. ASSUME NEW v \in Vnode
      PROVE  v \in LiveNodes' <=>
               v \in UsedNodes' \/ \E x \in es : x.node = v /\ x.dir \in LiveNodes'
  BY <1>1, <1>3, <1>4
<1>6. Root \in LiveNodes' /\ Root \in UsedNodes'
  BY DEF LiveNodes, UsedNodes
<1> QED BY <1>2, <1>5, <1>6 DEF Files!Settle

\* A step that changes no directory, and no more than one object and its count.
LEMMA ReferStep ==
  ASSUME ConcInv, ConcInv', NEW v, fNodes' = fNodes,
         \A w \in Vnode \ {v} : vn'[w] = vn[w] /\ fRef'[w] = fRef[w]
  PROVE  Files!Next
<1>1. PICK u \in Vnode \cup {Root} : v \in Vnode => u = v
  OBVIOUS
<1>2. \A w \in Vnode \ {u} : /\ Alive(w)' <=> Alive(w)
                             /\ fRef'[w] = fRef[w]
                             /\ Linked(w)' <=> Linked(w)
  BY <1>1 DEF Alive, Linked
<1>3. Files!UsesOnly(u) /\ LiveNodes' \subseteq LiveNodes \cup {u}
  BY <1>2 DEF Files!UsesOnly, UsedNodes, LiveNodes
<1>4. TreeEntries' = TreeEntries
  BY DEF TreeEntries
<1>5. Files!Settle(LiveNodes \cup {u}, TreeEntries)
  BY <1>3, <1>4, SettlesAfter
<1> QED BY <1>3, <1>5 DEF Files!Next, Files!Refer

\* A step that changes one place of one directory leaves the others' references.
LEMMA LinkUses ==
  ASSUME NEW v, vn' = vn, fRef' = fRef, \A w \in Vnode \ {v} : Linked(w)' <=> Linked(w)
  PROVE  Files!UsesOnly(v) /\ LiveNodes' = LiveNodes
BY DEF Files!UsesOnly, UsedNodes, LiveNodes, Alive

LEMMA InsertLinks ==
  ASSUME ConcInv, ConcInv', NEW t \in Thread, Insert(t)
  PROVE  Files!Next
<1>1. PICK d, n, v : d = thread[t].dir /\ n = thread[t].name /\ v = thread[t].vnode
  OBVIOUS
<1>2. /\ fNodes' = [fNodes EXCEPT ![d][n] = v]
      /\ vn' = vn /\ fRef' = fRef
  BY <1>1 DEF Insert
<1>3. Stage(t) = "insert"
  BY AtStage DEF Insert, ConcInv, CallInv
<1>4. /\ n \in Name /\ Reachable(d) /\ fNodes[d][n] = Null
      /\ v \in Vnode /\ Alive(v) /\ ~Linked(v)
  BY <1>1, <1>3 DEF ConcInv, CallInv, Creates, TreeHeld, HasTree, TreeStages
<1>5. d \in Vnode \cup {Root} /\ d # v /\ v # Root /\ v # Null
  BY <1>4, ConcurrencyAssumption DEF Reachable
<1>6. LinkSet(d, n, v)
  BY <1>2, <1>4, <1>5, LinkSetIs
<1>7. PICK new : new = Item(d, n, v)
  OBVIOUS
<1>8. new = Files!Entry(d, n, v)
  BY <1>7, ItemIs
<1>9. d \in LiveNodes
  <2>1. d # Root => d \in Vnode /\ Alive(d) /\ Linked(d)
    BY <1>4 DEF Reachable
  <2>2. d # Root => fRef[d] > 0
    BY <2>1 DEF ConcInv, RefsExact, TreeRef
  <2> QED BY <2>1, <2>2 DEF LiveNodes
<1>10. Files!Free(d, n) /\ ~Files!Listed(v) /\ Files!Leaf(v)
  <2>1. ASSUME NEW r \in TreeEntries
        PROVE  ~(r.dir = d /\ r.name = n) /\ r.node # v /\ r.dir # v
    <3>1. PICK e \in Vnode \cup {Root} : \E m \in Name :
            fNodes[e][m] # Null /\ r = Item(e, m, fNodes[e][m])
      BY <2>1, ItemsAre
    <3>2. PICK m \in Name : fNodes[e][m] # Null /\ r = Item(e, m, fNodes[e][m])
      BY <3>1
    <3>3. r.dir = e /\ r.name = m /\ r.node = fNodes[e][m]
      BY <3>2, ItemIs
    <3>4. Reachable(e)
      BY <3>2 DEF ConcInv, TreeOK
    <3>5. e # v
      BY <1>4, <1>5, <3>4 DEF Reachable
    <3>6. r.node # v
      BY <1>4, <3>3 DEF Linked
    <3> QED BY <1>4, <3>2, <3>3, <3>5, <3>6
  <2> QED BY <2>1 DEF Files!Free, Files!Listed, Files!Leaf
<1>11. \A w \in Vnode \ {v} : Linked(w)' <=> Linked(w)
  BY <1>4, <1>5, <1>6, ConcurrencyAssumption DEF LinkSet, Linked
<1>12. Files!UsesOnly(v) /\ LiveNodes' = LiveNodes
  BY <1>2, <1>11, LinkUses
<1>13. TreeEntries' = TreeEntries \cup {new}
  <2>1. ASSUME NEW r
        PROVE  r \in TreeEntries' <=> r \in TreeEntries \/ r = new
    <3>1. ASSUME NEW e \in Vnode \cup {Root}, NEW m \in Name
          PROVE  fNodes'[e][m] # Null /\ r = Item(e, m, fNodes'[e][m])
                   <=> \/ fNodes[e][m] # Null /\ r = Item(e, m, fNodes[e][m])
                       \/ e = d /\ m = n /\ r = new
      BY <1>4, <1>5, <1>6, <1>7 DEF LinkSet
    <3> QED BY <1>4, <1>5, <3>1, ItemsAre, ItemsAreNext
  <2> QED BY <2>1
<1>14. Files!Settle(LiveNodes \cup {v}, TreeEntries \cup {new})
  BY <1>12, <1>13, SettlesAfter
<1>15. Files!Link(d, n, v)
  BY <1>5, <1>8, <1>9, <1>10, <1>12, <1>14 DEF Files!Link
<1> QED BY <1>4, <1>5, <1>15 DEF Files!Next

\* Unlink and RemoveDir.
LEMMA TakeUnlinks ==
  ASSUME ConcInv, ConcInv', NEW d \in Vnode \cup {Root}, NEW n \in Name,
         NEW v, v = fNodes[d][n], v # Null, Empty(v),
         fNodes' = [fNodes EXCEPT ![d][n] = Null], vn' = vn, fRef' = fRef
  PROVE  Files!Next
<1>1. v \in Vnode
  BY NamedVnode
<1>2. LinkSet(d, n, Null)
  BY LinkSetIs
<1>3. PICK old : old = Item(d, n, v)
  OBVIOUS
<1>4. old = Files!Entry(d, n, v) /\ old \in TreeEntries
  BY <1>3, ItemIs, ItemsAre
<1>5. Files!Leaf(v)
  <2>1. ASSUME NEW r \in TreeEntries PROVE r.dir # v
    <3>1. PICK e \in Vnode \cup {Root} : \E m \in Name :
            fNodes[e][m] # Null /\ r = Item(e, m, fNodes[e][m])
      BY <2>1, ItemsAre
    <3> QED BY <3>1, ItemIs DEF Empty
  <2> QED BY <2>1 DEF Files!Leaf
<1>6. \A w \in Vnode \ {v} : Linked(w)' <=> Linked(w)
  BY <1>2, ConcurrencyAssumption DEF LinkSet, Linked
<1>7. Files!UsesOnly(v) /\ LiveNodes' = LiveNodes
  BY <1>6, LinkUses
<1>8. TreeEntries' = TreeEntries \ {old}
  <2>1. ASSUME NEW r
        PROVE  r \in TreeEntries' <=> r \in TreeEntries /\ r # old
    <3>1. ASSUME NEW e \in Vnode \cup {Root}, NEW m \in Name
          PROVE  fNodes'[e][m] # Null /\ r = Item(e, m, fNodes'[e][m])
                   <=> /\ fNodes[e][m] # Null /\ r = Item(e, m, fNodes[e][m])
                       /\ r # old
      <4>1. CASE e = d /\ m = n
        BY <1>2, <1>3, <4>1 DEF LinkSet
      <4>2. CASE ~(e = d /\ m = n)
        <5>1. Item(e, m, fNodes[e][m]) # old
          BY <1>3, <4>2, ItemIs
        <5>2. fNodes'[e][m] = fNodes[e][m]
          BY <1>2, <4>2 DEF LinkSet
        <5> QED BY <5>1, <5>2
      <4> QED BY <4>1, <4>2
    <3> QED BY <3>1, ItemsAre, ItemsAreNext
  <2> QED BY <2>1
<1>9. Files!Settle(LiveNodes, TreeEntries \ {old})
  BY <1>7, <1>8, SettlesAfter
<1>10. Files!Unlink(d, n, v)
  BY <1>4, <1>5, <1>7, <1>9 DEF Files!Unlink
<1> QED BY <1>1, <1>10 DEF Files!Next

LEMMA EntryTaken ==
  ASSUME ConcInv, ConcInv', NEW t \in Thread, NEW d \in Vnode \cup {Root},
         NEW n \in Name, Unlink(t, d, n) \/ RemoveDir(t, d, n)
  PROVE  Files!Next
<1>1. PICK v : v = fNodes[d][n]
  OBVIOUS
<1>2. /\ v # Null /\ (Kind(v) = "file" \/ Empty(v))
      /\ fNodes' = [fNodes EXCEPT ![d][n] = Null] /\ vn' = vn /\ fRef' = fRef
  BY <1>1 DEF Unlink, RemoveDir
<1>3. Empty(v)
  <2>1. v \in Vnode
    BY <1>1, <1>2, NamedVnode
  <2>2. Kind(v) = "file" => ~Reachable(v)
    BY <2>1, ConcurrencyAssumption DEF Reachable
  <2> QED BY <1>2, <2>1, <2>2 DEF ConcInv, TreeOK, Empty
<1> QED BY <1>1, <1>2, <1>3, TakeUnlinks

LEMMA StepKeepsPromise ==
  ASSUME ConcInv, ConcInv', NEW t \in Thread, Step(t)
  PROVE  Files!Next
<1>0. vn \in [Vnode -> Objects \cup {Absent}] /\ fRef \in [Vnode -> Nat]
  BY DEF ConcInv, Types, TypeOK
<1>1. CASE Publish(t) \/ Drop(t) \/ GiveUp(t) \/ GetFails(t) \/ DeleteEnds(t)
             \/ Unlock(t) \/ \E i \in Id : Mark(t, i)
  <2>1. vn' = vn /\ fRef' = fRef /\ fNodes' = fNodes
    BY <1>1 DEF Publish, Drop, GiveUp, GetFails, DeleteEnds, Unlock, Mark, objects
  <2> QED BY <2>1, ReferStep
<1>2. CASE Release(t)
  <2>1. PICK v : v = thread[t].vnode
    OBVIOUS
  <2>2. vn' = vn /\ fNodes' = fNodes /\ fRef' = [fRef EXCEPT ![v] = @ - 1]
    BY <1>2, <2>1 DEF Release
  <2>3. \A w \in Vnode \ {v} : vn'[w] = vn[w] /\ fRef'[w] = fRef[w]
    BY <1>0, <2>2
  <2> QED BY <2>2, <2>3, ReferStep
<1>3. CASE Delete(t)
  <2>1. PICK v : v = Destroyed(t)
    OBVIOUS
  <2>2. fRef' = fRef /\ fNodes' = fNodes /\ vn' = [vn EXCEPT ![v] = Absent]
    BY <1>3, <2>1 DEF Delete
  <2>3. \A w \in Vnode \ {v} : vn'[w] = vn[w] /\ fRef'[w] = fRef[w]
    BY <1>0, <2>2
  <2> QED BY <2>2, <2>3, ReferStep
<1>4. CASE GetVnode(t) \/ Get(t)
  <2>1. PICK v : v = fIds[thread[t].id]
    OBVIOUS
  <2>2. /\ vn' = vn /\ fNodes' = fNodes
        /\ \A w \in Vnode \ {v} : fRef'[w] = fRef[w]
    BY <1>4, <2>1 DEF GetVnode, Get
  <2> QED BY <2>2, ReferStep
<1>5. CASE Insert(t)
  BY <1>5, InsertLinks
<1>6. CASE \E n \in Name : ReleaseEntry(t, n)
  BY <1>6, ReleaseEntryNever
<1> QED BY <1>1, <1>2, <1>3, <1>4, <1>5, <1>6 DEF Step

LEMMA NextKeepsPromise ==
  ASSUME ConcInv, ConcInv', Next
  PROVE  Files!Next
<1>1. ASSUME NEW t \in Thread, Step(t) PROVE Files!Next
  BY <1>1, StepKeepsPromise
<1>2. ASSUME NEW t \in Thread, NEW i \in Id, GetByNumber(t, i) \/ Put(t, i) \/ Evict(t, i)
      PROVE  Files!Next
  <2>1. vn' = vn /\ fRef' = fRef /\ fNodes' = fNodes
    BY <1>2 DEF GetByNumber, Put, Evict, objects
  <2> QED BY <2>1, ReferStep
<1>3. ASSUME NEW t \in Thread, NEW d \in Vnode \cup {Root}, NEW n \in Name,
             Lookup(t, d, n) \/ CreateOpens(t, d, n)
      PROVE  Files!Next
  <2>1. vn' = vn /\ fRef' = fRef /\ fNodes' = fNodes
    BY <1>3 DEF Lookup, LookupId, CreateOpens, objects
  <2> QED BY <2>1, ReferStep
<1>4. ASSUME NEW t \in Thread, NEW d \in Vnode \cup {Root}, NEW n \in Name,
             Unlink(t, d, n) \/ RemoveDir(t, d, n)
      PROVE  Files!Next
  BY <1>4, EntryTaken
<1>5. ASSUME NEW t \in Thread, NEW d \in Vnode \cup {Root}, NEW n \in Name,
             NEW v \in Vnode,
             \/ \E i \in Id : Create(t, d, n, v, i) \/ CreateDir(t, d, n, v, i)
             \/ \E k \in {"dir", "file"} : NewVnodeFails(t, d, n, k, v)
      PROVE  Files!Next
  <2>1. /\ fNodes' = fNodes /\ fRef' = [fRef EXCEPT ![v] = 1]
        /\ \E o : vn' = [vn EXCEPT ![v] = o]
    BY <1>5 DEF Create, CreateDir, NewVnode, NewVnodeFails
  <2>2. \A w \in Vnode \ {v} : vn'[w] = vn[w] /\ fRef'[w] = fRef[w]
    BY <2>1 DEF ConcInv, Types, TypeOK
  <2> QED BY <2>1, <2>2, ReferStep
<1>6. ASSUME NEW t \in Thread, NEW d \in Vnode, LookupDots(t, d)
      PROVE  Files!Next
  <2>1. vn' = vn /\ fRef' = fRef /\ fNodes' = fNodes
    BY <1>6 DEF LookupDots, LookupId, objects
  <2> QED BY <2>1, ReferStep
<1> QED BY <1>1, <1>2, <1>3, <1>4, <1>5, <1>6 DEF Next

\* Calls that overlap keep the promise of calls that are atomic: between any two
\* steps of any threads, entries change one at a time and under names that are
\* free, directories go when they are empty, and a vnode loses its last reference
\* in the step after which neither a directory nor a user has it.
THEOREM ConcImplementsNamespace ==
  ASSUME CreateInRemoved = FALSE
  PROVE  Spec => ImplementsNamespace
<1>1. Init => Files!Init
  <2> SUFFICES ASSUME Init PROVE Files!Init
    OBVIOUS
  <2>1. \A v \in Vnode : ~Alive(v)
    BY DEF Init, Alive
  <2>2. LiveNodes = {Root} /\ UsedNodes = {Root}
    BY <2>1 DEF LiveNodes, UsedNodes
  <2>3. \A r : r \notin TreeEntries
    BY ItemsAre DEF Init
  <2>4. TreeEntries = {}
    BY <2>3
  <2> QED BY <2>2, <2>4 DEF Files!Init
<1>2. ASSUME ConcInv, ConcInv', [Next]_vars
      PROVE  [Files!Next]_(Files!vars)
  <2>1. CASE Next
    BY <1>2, <2>1, NextKeepsPromise
  <2>2. CASE UNCHANGED vars
    BY <2>2 DEF vars, objects, Files!vars, LiveNodes, UsedNodes, TreeEntries, Alive,
       Linked
  <2> QED BY <1>2, <2>1, <2>2
<1> QED
  BY <1>1, <1>2, ConcInvariant, PTL DEF Spec, ImplementsNamespace, Files!Spec
=============================================================================
