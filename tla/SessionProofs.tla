---------------------------- MODULE SessionProofs ----------------------------
(***************************************************************************)
(* For any processes, tables, workspace and bounds: a table is shared only *)
(* through one of the gaps, its sequence numbers are unique, and its       *)
(* indexes are complete whenever nobody has it.                            *)
(*                                                                         *)
(* Local says what a process knows of itself at each step of a call: the   *)
(* tables it has still to open are free, those it has still to close are   *)
(* not.  Shared is SharedOnlyByRace for each table; with Local alone it is *)
(* inductive.  Kept adds the data: of a table that is not shared the one   *)
(* process that is in it has the numbers of the files, and its keys list   *)
(* its records unless a process died with the table; what is to be stored  *)
(* and what was, at each step of closeTable, is Stored and Rekeyed.        *)
(***************************************************************************)
EXTENDS Session, FiniteSetTheorems, SequenceTheorems, TLAPS

(* The job j and the tables u of a process agree.                          *)
Before(j) == j.at \in {"test", "read", "lock", "scrap", "make"} \/ j.bad
Behind(j) == j.at \in {"keys", "store", "unlock", "indexes"} /\ ~j.bad

LocalOK(j, u) ==
  /\ j.at # "none" => j.todo # <<>>
  /\ IsInjective(j.todo)
  /\ j.bad => j.at \in {"store", "unlock", "indexes"}
  /\ j.call = "reindex" => Len(j.todo) = 1
  /\ Before(j) => \A i \in DOMAIN j.todo : u[j.todo[i]] = "free"
  /\ Behind(j) => \A i \in DOMAIN j.todo : u[j.todo[i]] # "free"

Typed == /\ job \in [Proc -> Jobs]
         /\ use \in [Proc -> [Tables -> Uses]]

Local == Typed /\ \A p \in Proc : LocalOK(job[p], use[p])

(* All that follows from p making a step, of the others.                   *)
OnlyOf(p) == \A q \in Proc \ {p} : job'[q] = job[q] /\ use'[q] = use[q]

-----------------------------------------------------------------------------
(* The tables left of a call with several.                                 *)
LEMMA TailOfTodo ==
  ASSUME NEW s \in Seq(Tables), s # <<>>, IsInjective(s), Len(s) # 1
  PROVE  /\ Tail(s) \in Seq(Tables) /\ Tail(s) # <<>> /\ IsInjective(Tail(s))
         /\ \A i \in DOMAIN Tail(s) :
              Tail(s)[i] # Head(s) /\ \E k \in DOMAIN s : Tail(s)[i] = s[k]
<1>1. /\ Len(s) \in Nat /\ DOMAIN s = 1..Len(s) /\ Head(s) = s[1]
      /\ Tail(s) \in Seq(Tables) /\ Len(Tail(s)) = Len(s) - 1
      /\ DOMAIN Tail(s) = 1..Len(s) - 1
      /\ \A i \in 1..Len(s) - 1 : Tail(s)[i] = s[i + 1]
      /\ Len(s) > 1
  <2>1. /\ Len(Tail(s)) = Len(s) - 1 /\ Tail(s) \in Seq(Tables)
        /\ \A i \in 1..Len(Tail(s)) : Tail(s)[i] = s[i + 1]
    BY HeadTailProperties
  <2>2. Len(s) \in Nat /\ Len(s) # 0 /\ DOMAIN s = 1..Len(s)
    BY EmptySeq
  <2>3. DOMAIN Tail(s) = 1..Len(Tail(s))
    BY <2>1
  <2> QED BY <2>1, <2>2, <2>3
<1>2. \A i \in DOMAIN Tail(s) : /\ i + 1 \in DOMAIN s /\ i + 1 # 1
                                /\ Tail(s)[i] = s[i + 1]
  BY <1>1
<1>3. 1 \in DOMAIN s
  BY <1>1
<1> QED BY <1>1, <1>2, <1>3 DEF IsInjective

(* Cur is one of the tables of the call.                                   *)
LEMMA CurIsTable ==
  ASSUME Local, NEW p \in Proc, job[p].at # "none"
  PROVE  Cur(p) \in Tables /\ \E i \in DOMAIN job[p].todo : Cur(p) = job[p].todo[i]
<1>1. job[p].todo \in Seq(Tables) /\ job[p].todo # <<>>
  BY DEF Local, Typed, LocalOK, Jobs
<1> QED BY <1>1 DEF Cur

(* The job after the step of a call for one table.                         *)
LEMMA FollowingOK ==
  ASSUME NEW j \in Jobs, NEW u \in [Tables -> Uses], NEW v \in [Tables -> Uses],
         LocalOK(j, u), ~j.bad, j.at # "none",
         NEW at, at \in {"test", "store"},
         \A t \in Tables \ {Head(j.todo)} : v[t] = u[t],
         at = "test"  => Before(j),
         at = "store" => Behind(j)
  PROVE  /\ Following(j, at) \in Jobs /\ LocalOK(Following(j, at), v)
         /\ Following(j, at).at \in {"none", at} /\ ~Following(j, at).bad
<1> DEFINE k == Following(j, at)
<1>1. CASE Len(j.todo) = 1
  <2>1. k = Idle
    BY <1>1 DEF Following
  <2>2. Idle \in Jobs
    BY DEF Idle, Jobs
  <2> QED BY <2>1, <2>2 DEF LocalOK, Idle, Before, Behind, IsInjective
<1>2. CASE Len(j.todo) # 1
  <2> DEFINE s == j.todo
  <2>1. s \in Seq(Tables) /\ s # <<>> /\ IsInjective(s)
    BY DEF LocalOK, Jobs
  <2>2. /\ Tail(s) \in Seq(Tables) /\ Tail(s) # <<>> /\ IsInjective(Tail(s))
        /\ \A i \in DOMAIN Tail(s) :
             Tail(s)[i] # Head(s) /\ \E n \in DOMAIN s : Tail(s)[i] = s[n]
    BY <1>2, <2>1, TailOfTodo
  <2>3. /\ k \in Jobs /\ k.at = at /\ k.todo = Tail(s) /\ k.bad = FALSE /\ k.call = j.call
    BY <1>2, <2>2 DEF Following, Jobs
  <2>4. \A i \in DOMAIN Tail(s) : Tail(s)[i] \in Tables /\ v[Tail(s)[i]] = u[Tail(s)[i]]
    BY <2>2
  <2>5. j.call # "reindex"
    BY <1>2 DEF LocalOK
  <2> QED BY <2>2, <2>3, <2>4, <2>5 DEF LocalOK, Before, Behind
<1> QED BY <1>1, <1>2

(* dbreindex is a call for one table.                                      *)
LEMMA FollowingCall ==
  ASSUME NEW j \in Jobs, NEW u, LocalOK(j, u), NEW at
  PROVE  Following(j, at).call # "reindex"
BY DEF Following, LocalOK, Idle, Jobs

(* The changes of one process, typed and in agreement, keep Local.         *)
LEMMA LocalOfOne ==
  ASSUME Local, NEW p \in Proc, NEW j \in Jobs, NEW u \in [Tables -> Uses],
         job' = [job EXCEPT ![p] = j], use' = [use EXCEPT ![p] = u], LocalOK(j, u)
  PROVE  Local' /\ OnlyOf(p) /\ job'[p] = j /\ use'[p] = u
BY DEF Local, Typed, OnlyOf

(* The same, if its tables stay as they are.                               *)
LEMMA LocalOfJob ==
  ASSUME Local, NEW p \in Proc, NEW j \in Jobs,
         job' = [job EXCEPT ![p] = j], use' = use, LocalOK(j, use[p])
  PROVE  Local' /\ OnlyOf(p) /\ job'[p] = j /\ use'[p] = use[p]
BY DEF Local, Typed, OnlyOf

(* A step of a call for its table, before and behind the creation of the   *)
(* .LCK file.                                                              *)
LEMMA GotoOK ==
  ASSUME Local, NEW p \in Proc, job[p].at # "none", NEW at \in {"read", "lock", "make",
           "store", "unlock", "indexes"}, Goto(p, at), use' = use,
         LocalOK([job[p] EXCEPT !.at = at], use[p])
  PROVE  /\ Local' /\ OnlyOf(p) /\ use'[p] = use[p]
         /\ job[p] \in Jobs /\ job'[p].at = at /\ job'[p].todo = job[p].todo
         /\ job'[p].bad = job[p].bad /\ job'[p].call = job[p].call
<1> DEFINE j == [job[p] EXCEPT !.at = at]
<1>1. job[p] \in Jobs
  BY DEF Local, Typed
<1>2. /\ j \in Jobs /\ j.todo = job[p].todo /\ j.call = job[p].call
      /\ j.bad = job[p].bad /\ j.at = at
  BY <1>1 DEF Jobs
<1>3. job' = [job EXCEPT ![p] = j]
  BY DEF Goto, Local, Typed
<1> HIDE DEF j
<1>4. Local' /\ OnlyOf(p) /\ use'[p] = use[p] /\ job'[p] = j
  BY <1>2, <1>3, LocalOfJob DEF j
<1> QED BY <1>1, <1>2, <1>4

(* The steps of openTable and createTable up to the .LCK file.             *)
LEMMA GotoBefore ==
  ASSUME Local, NEW p \in Proc, NEW at \in {"read", "lock", "make"}, Goto(p, at),
         use' = use, job[p].at \in {"test", "read", "scrap", "make"}
  PROVE  /\ Local' /\ OnlyOf(p) /\ use'[p] = use[p]
         /\ job[p] \in Jobs /\ job'[p].at = at /\ job'[p].todo = job[p].todo
         /\ job'[p].bad = job[p].bad /\ job'[p].call = job[p].call
<1>1. job[p] \in Jobs /\ LocalOK(job[p], use[p])
  BY DEF Local, Typed
<1>2. LocalOK([job[p] EXCEPT !.at = at], use[p])
  BY <1>1 DEF LocalOK, Before, Behind, Jobs
<1> QED BY <1>2, GotoOK

(* The steps of reindexTable and closeTable up to the indexes.             *)
LEMMA GotoBehind ==
  ASSUME Local, NEW p \in Proc, NEW at \in {"store", "unlock", "indexes"}, Goto(p, at),
         use' = use, job[p].at \in {"keys", "store", "unlock"}
  PROVE  /\ Local' /\ OnlyOf(p) /\ use'[p] = use[p]
         /\ job[p] \in Jobs /\ job'[p].at = at /\ job'[p].todo = job[p].todo
         /\ job'[p].bad = job[p].bad /\ job'[p].call = job[p].call
<1>1. job[p] \in Jobs /\ LocalOK(job[p], use[p])
  BY DEF Local, Typed
<1>2. LocalOK([job[p] EXCEPT !.at = at], use[p])
  BY <1>1 DEF LocalOK, Before, Behind, Jobs
<1> QED BY <1>2, GotoOK

(* A process between two calls.                                            *)
LEMMA IdleOK == Idle \in Jobs /\ \A u : LocalOK(Idle, u)
BY DEF Idle, Jobs, LocalOK, Before, Behind, IsInjective

(* A process that ends or dies has no table.                               *)
LEMMA GoneOK ==
  ASSUME Local, NEW p \in Proc, NEW how, Gone(p, how)
  PROVE  /\ Local' /\ OnlyOf(p) /\ job'[p] = Idle
         /\ use'[p] = [t \in Tables |-> "free"]
<1>1. [t \in Tables |-> "free"] \in [Tables -> Uses]
  BY DEF Uses
<1> QED BY <1>1, IdleOK, LocalOfOne DEF Gone

(* A call that fails gives up no table; wsOpen only loses them.            *)
LEMMA GiveUpOK ==
  ASSUME Local, NEW p \in Proc, GiveUp(p)
  PROVE  /\ Local' /\ OnlyOf(p) /\ job'[p] = Idle
         /\ \A t \in Tables : use'[p][t] = "free" <=> use[p][t] = "free"
<1> DEFINE u == [t \in Tables |-> IF job[p].call = "wsOpen" /\ use[p][t] = "workspace"
                                   THEN "lost" ELSE use[p][t]]
<1>1. use[p] \in [Tables -> Uses]
  BY DEF Local, Typed
<1>2. u \in [Tables -> Uses] /\ \A t \in Tables : u[t] = "free" <=> use[p][t] = "free"
  BY <1>1 DEF Uses
<1>3. use' = [use EXCEPT ![p] = u] /\ job' = [job EXCEPT ![p] = Idle]
  BY DEF GiveUp
<1> QED BY <1>2, <1>3, IdleOK, LocalOfOne, ZenonT(60)

(* A call begins with distinct tables, all of them free or none.           *)
LEMMA BeginOK ==
  ASSUME Local, NEW p \in Proc, NEW call, NEW at, NEW todo \in Seq(Tables),
         Begin(p, call, at, todo), IsInjective(todo),
         call \in {"open", "close", "reindex", "build", "wsOpen", "wsClose",
                   "dbexit", "exit"},
         call = "reindex" => Len(todo) = 1 /\ at = "test",
         \/ at \in {"test", "scrap"} /\ \A i \in DOMAIN todo : use[p][todo[i]] = "free"
         \/ at = "store" /\ \A i \in DOMAIN todo : use[p][todo[i]] # "free"
  PROVE  /\ Local' /\ OnlyOf(p) /\ use'[p] = use[p] /\ job[p].at = "none"
         /\ job'[p].at \in {"test", "store", "scrap"} /\ ~job'[p].bad
         /\ job'[p].at = "store" => job'[p].call # "reindex"
         /\ UNCHANGED <<lck, file, mem, raced, damaged, issued>>
<1> DEFINE j == Job(call, at, todo)
<1>1. /\ j \in Jobs /\ j.todo = todo /\ j.call = call /\ j.bad = FALSE /\ j.at = at
  BY DEF Job, Jobs
<1>2. todo # <<>>
  BY DEF Begin
<1>3. LocalOK(j, use[p])
  BY <1>1, <1>2 DEF LocalOK, Before, Behind
<1>4. job' = [job EXCEPT ![p] = j] /\ use' = use
  BY DEF Begin
<1>5. Local' /\ OnlyOf(p) /\ use'[p] = use[p] /\ job'[p] = j
  BY <1>1, <1>3, <1>4, LocalOfJob
<1>6. job[p].at = "none" /\ UNCHANGED <<lck, file, mem, raced, damaged, issued>>
  BY DEF Begin, Ready, At
<1> QED BY <1>1, <1>5, <1>6

(* The tables of a call for one table.                                     *)
LEMMA Singleton ==
  ASSUME NEW t \in Tables
  PROVE  <<t>> \in Seq(Tables) /\ IsInjective(<<t>>) /\ Len(<<t>>) = 1
         /\ DOMAIN <<t>> = {1} /\ <<t>>[1] = t
BY DEF IsInjective

(* The tables dbexit closes, in any order.                                 *)
LEMMA HandlesAsSequence ==
  ASSUME Local, NEW p \in Proc, NEW todo \in SetToSeqs(Handles(p))
  PROVE  /\ todo \in Seq(Tables) /\ IsInjective(todo)
         /\ \A i \in DOMAIN todo : use[p][todo[i]] # "free"
<1>1. IsFiniteSet(Handles(p))
  BY SessionAssumption, FS_Subset DEF Handles
<1>2. Cardinality(Handles(p)) \in Nat
  BY <1>1, FS_CardinalityType
<1>3. /\ todo \in [1..Cardinality(Handles(p)) -> Handles(p)]
      /\ \A i, j \in 1..Cardinality(Handles(p)) : i # j => todo[i] # todo[j]
  BY DEF SetToSeqs
<1>4. todo \in Seq(Handles(p))
  BY <1>2, <1>3
<1>5. Handles(p) \subseteq Tables /\ \A t \in Handles(p) : use[p][t] # "free"
  BY DEF Handles
<1>6. todo \in Seq(Tables)
  BY <1>4, <1>5, SeqMonotonic
<1> QED BY <1>3, <1>5, <1>6 DEF IsInjective

(* The first step of every call.                                           *)
LEMMA BeginsOK ==
  ASSUME Local, NEW p \in Proc,
         \/ \E t \in Tables : dbopen(p, t) \/ dbclose(p, t) \/ dbreindex(p, t)
                                \/ buildTable(p, t)
         \/ wsOpen(p) \/ wsClose(p) \/ dbexit(p)
  PROVE  /\ Local' /\ OnlyOf(p) /\ use'[p] = use[p] /\ job[p].at = "none"
         /\ job'[p].at \in {"test", "store", "scrap"} /\ ~job'[p].bad
         /\ job'[p].at = "store" => job'[p].call # "reindex"
         /\ UNCHANGED <<lck, file, mem, raced, damaged, issued>>
<1>1. CASE \E t \in Tables : dbopen(p, t) \/ dbclose(p, t) \/ dbreindex(p, t)
                               \/ buildTable(p, t)
  <2>1. PICK t \in Tables : dbopen(p, t) \/ dbclose(p, t) \/ dbreindex(p, t)
                               \/ buildTable(p, t)
    BY <1>1
  <2> USE Singleton
  <2>2. CASE dbopen(p, t)
    <3>1. Begin(p, "open", "test", <<t>>) /\ use[p][t] = "free"
      BY <2>2 DEF dbopen
    <3> QED BY <3>1, BeginOK
  <2>3. CASE dbclose(p, t)
    <3>1. Begin(p, "close", "store", <<t>>) /\ use[p][t] # "free"
      BY <2>3 DEF dbclose
    <3> DEFINE s == <<t>>
    <3>2. /\ s \in Seq(Tables) /\ IsInjective(s) /\ Begin(p, "close", "store", s)
          /\ \A i \in DOMAIN s : use[p][s[i]] # "free"
      BY <3>1
    <3> HIDE DEF s
    <3> QED BY <3>2, BeginOK
  <2>4. CASE dbreindex(p, t)
    <3>1. Begin(p, "reindex", "test", <<t>>) /\ use[p][t] = "free"
      BY <2>4 DEF dbreindex
    <3> QED BY <3>1, BeginOK
  <2>5. CASE buildTable(p, t)
    <3>1. Begin(p, "build", "scrap", <<t>>) /\ use[p][t] = "free"
      BY <2>5 DEF buildTable
    <3> QED BY <3>1, BeginOK
  <2> QED BY <2>1, <2>2, <2>3, <2>4, <2>5
<1>2. CASE wsOpen(p)
  <2>1. /\ Begin(p, "wsOpen", "test", Workspace)
        /\ \A i \in DOMAIN Workspace : use[p][Workspace[i]] = "free"
    BY <1>2 DEF wsOpen, Range
  <2> QED BY <2>1, BeginOK, SessionAssumption
<1>3. CASE wsClose(p)
  <2>1. /\ Begin(p, "wsClose", "store", Workspace)
        /\ \A i \in DOMAIN Workspace : use[p][Workspace[i]] # "free"
    BY <1>3 DEF wsClose, Range
  <2> QED BY <2>1, BeginOK, SessionAssumption
<1>4. CASE dbexit(p)
  <2>1. PICK call \in {"dbexit", "exit"}, todo \in SetToSeqs(Handles(p)) :
          Begin(p, call, "store", todo)
    BY <1>4 DEF dbexit
  <2>2. /\ todo \in Seq(Tables) /\ IsInjective(todo)
        /\ \A i \in DOMAIN todo : use[p][todo[i]] # "free"
    BY HandlesAsSequence
  <2> QED BY <2>1, <2>2, BeginOK
<1> QED BY <1>1, <1>2, <1>3, <1>4

-----------------------------------------------------------------------------
(* One process has table t, and it is locked while it relies on it.        *)
Exclusive(t) ==
  \A p \in Proc : /\ In(p, t) => Others(p, t) = {}
                  /\ Holds(p, t) => t \in lck

(* What the others are in does not depend on the step of p.                *)
LEMMA OthersKeep ==
  ASSUME NEW p \in Proc, OnlyOf(p), NEW q \in Proc \ {p}, NEW t
  PROVE  (InGap(q, t)' <=> InGap(q, t)) /\ (In(q, t)' <=> In(q, t))
         /\ (Holds(q, t)' <=> Holds(q, t))
BY DEF OnlyOf, InGap, In, Holds, Cur

(* A step of p that does not bring it into t, and does not unlock it for   *)
(* another process.                                                        *)
LEMMA Quiet ==
  ASSUME NEW p \in Proc, OnlyOf(p), NEW t, Exclusive(t),
         In(p, t)' => In(p, t),
         Holds(p, t)' => t \in lck',
         t \in lck => t \in lck' \/ \A q \in Proc \ {p} : ~In(q, t)
  PROVE  Exclusive(t)'
<1>1. \A q \in Proc \ {p} : (In(q, t)' <=> In(q, t)) /\ (Holds(q, t)' <=> Holds(q, t))
  BY OthersKeep
<1>2. \A q \in Proc : Holds(q, t) => In(q, t)
  BY DEF Holds, In
<1>3. \A q \in Proc : In(q, t)' => In(q, t)
  BY <1>1
<1>4. \A q \in Proc : Holds(q, t)' => t \in lck'
  BY <1>1, <1>2 DEF Exclusive
<1> QED BY <1>3, <1>4 DEF Exclusive, Others

(* A step after which no other process is in t.                            *)
LEMMA Alone ==
  ASSUME NEW p \in Proc, OnlyOf(p), NEW t,
         \A q \in Proc \ {p} : ~In(q, t),
         Holds(p, t)' => t \in lck'
  PROVE  Exclusive(t)'
<1>1. \A q \in Proc \ {p} : ~In(q, t)'
  BY OthersKeep
<1>2. \A q \in Proc : Holds(q, t) => In(q, t)
  BY DEF Holds, In
<1>3. \A q \in Proc \ {p} : ~Holds(q, t)'
  BY OthersKeep, <1>2
<1> QED BY <1>1, <1>3 DEF Exclusive, Others

(* A process that is between two calls, or before the tables of one.       *)
LEMMA NotInGap ==
  ASSUME NEW p, NEW t,
         job[p].at = "none" \/ (job[p].at \notin {"read", "lock", "indexes"} /\ ~job[p].bad)
  PROVE  ~InGap(p, t)
BY DEF InGap

Shared == \A t \in Tables \ raced : Exclusive(t)

-----------------------------------------------------------------------------
(* Each action keeps Local and Shared.                                     *)
LEMMA BeginsShared ==
  ASSUME Local, Shared, NEW p \in Proc,
         \/ \E t \in Tables : dbopen(p, t) \/ dbclose(p, t) \/ dbreindex(p, t)
                                \/ buildTable(p, t)
         \/ wsOpen(p) \/ wsClose(p) \/ dbexit(p)
  PROVE  Local' /\ Shared'
<1>1. /\ Local' /\ OnlyOf(p) /\ use'[p] = use[p] /\ job[p].at = "none"
      /\ job'[p].at \in {"test", "store", "scrap"} /\ ~job'[p].bad
      /\ lck' = lck /\ raced' = raced
  BY BeginsOK
<1>2. ASSUME NEW t \in Tables \ raced' PROVE Exclusive(t)'
  <2>1. ~InGap(p, t) /\ ~InGap(p, t)'
    BY <1>1 DEF InGap
  <2>2. (In(p, t)' <=> In(p, t)) /\ (Holds(p, t)' <=> Holds(p, t))
    BY <1>1, <2>1 DEF In, Holds
  <2>3. Exclusive(t)
    BY <1>1 DEF Shared
  <2> QED BY <1>1, <2>2, <2>3, Quiet DEF Exclusive
<1> QED BY <1>1, <1>2 DEF Shared

(* Nor does the end or the death of a process.                             *)
LEMMA GoneShared ==
  ASSUME Local, Shared, NEW p \in Proc, NEW how, Gone(p, how)
  PROVE  Local' /\ Shared'
<1>1. /\ Local' /\ OnlyOf(p) /\ job'[p] = Idle /\ use'[p] = [t \in Tables |-> "free"]
  BY GoneOK
<1>2. raced' = raced /\ lck' = lck
  BY DEF Gone
<1>3. ASSUME NEW t \in Tables \ raced' PROVE Exclusive(t)'
  <2>1. ~In(p, t)' /\ ~Holds(p, t)'
    BY <1>1 DEF In, Holds, InGap, Idle
  <2>2. Exclusive(t)
    BY <1>2 DEF Shared
  <2> QED BY <1>1, <1>2, <2>1, <2>2, Quiet
<1> QED BY <1>1, <1>3 DEF Shared

(* openTable looks for the .LCK file; who passes with another one in the   *)
(* gap makes the table raced.                                              *)
LEMMA TestShared ==
  ASSUME Local, Shared, NEW p \in Proc, Test(p)
  PROVE  Local' /\ Shared'
<1> DEFINE c == Cur(p)
<1>1. /\ job[p].at = "test" /\ lck' = lck
  BY DEF Test, At
<1>2. LocalOK(job[p], use[p]) /\ ~job[p].bad /\ c \in Tables /\ use[p][c] = "free"
  BY <1>1, CurIsTable DEF Local, LocalOK, Before
<1>3. CASE c \in lck
  <2>1. GiveUp(p) /\ raced' = raced
    BY <1>3 DEF Test
  <2>2. /\ Local' /\ OnlyOf(p) /\ job'[p] = Idle
        /\ \A t \in Tables : use'[p][t] = "free" <=> use[p][t] = "free"
    BY <2>1, GiveUpOK
  <2>3. ASSUME NEW t \in Tables \ raced' PROVE Exclusive(t)'
    <3>1. ~InGap(p, t) /\ ~InGap(p, t)'
      BY <1>1, <1>2, <2>2 DEF InGap, Idle
    <3>2. (In(p, t)' <=> In(p, t)) /\ (Holds(p, t)' <=> Holds(p, t))
      BY <2>2, <3>1 DEF In, Holds
    <3>3. Exclusive(t)
      BY <2>1 DEF Shared
    <3> QED BY <1>1, <2>2, <3>2, <3>3, Quiet DEF Exclusive
  <2> QED BY <2>2, <2>3 DEF Shared
<1>4. CASE c \notin lck
  <2>1. Goto(p, "read") /\ use' = use
    BY <1>4 DEF Test
  <2>2. /\ Local' /\ OnlyOf(p) /\ use'[p] = use[p]
        /\ job'[p].at = "read" /\ job'[p].todo = job[p].todo /\ job'[p].bad = job[p].bad
    BY <1>1, <2>1, GotoBefore
  <2>3. ~job'[p].bad
    BY <1>2, <2>2
  <2>4. \/ raced' = raced \cup {c}
        \/ raced' = raced /\ \A q \in Proc \ {p} : ~InGap(q, c)
    BY <1>4 DEF Test, Race
  <2>5. ASSUME NEW t \in Tables \ raced' PROVE Exclusive(t)'
    <3>1. Exclusive(t)
      BY <2>4 DEF Shared
    <3>2. ~InGap(p, t)
      BY <1>1, <1>2 DEF InGap
    <3>3. CASE t # c
      <4>1. ~InGap(p, t)'
        BY <2>2, <2>3, <3>3 DEF InGap, Cur
      <4>2. (In(p, t)' <=> In(p, t)) /\ (Holds(p, t)' <=> Holds(p, t))
        BY <2>2, <3>2, <4>1 DEF In, Holds
      <4> QED BY <1>1, <2>2, <3>1, <4>2, Quiet DEF Exclusive
    <3>4. CASE t = c
      <4>1. \A q \in Proc \ {p} : ~InGap(q, t)
        BY <2>4, <3>4
      <4>2. \A q \in Proc \ {p} : ~In(q, t)
        BY <1>4, <3>1, <3>4, <4>1 DEF Exclusive, In, Holds
      <4>3. InGap(p, t)'
        BY <1>1, <2>2, <3>4 DEF InGap, Cur
      <4> QED BY <2>2, <4>2, <4>3, Alone DEF Holds
    <3> QED BY <3>3, <3>4
  <2> QED BY <2>2, <2>5 DEF Shared
<1> QED BY <1>3, <1>4

(* Steps that leave the .LCK files, raced and the tables of p, and go from *)
(* one state in or out of the gap to another such state.                   *)
LEMMA SameGap ==
  ASSUME Shared, NEW p \in Proc, OnlyOf(p), lck' = lck, raced \subseteq raced',
         use'[p] = use[p], \A t \in Tables : InGap(p, t)' <=> InGap(p, t)
  PROVE  Shared'
<1>1. ASSUME NEW t \in Tables \ raced' PROVE Exclusive(t)'
  <2>1. (In(p, t)' <=> In(p, t)) /\ (Holds(p, t)' <=> Holds(p, t))
    BY DEF In, Holds
  <2>2. Exclusive(t)
    BY DEF Shared
  <2> QED BY <2>1, <2>2, Quiet DEF Exclusive
<1> QED BY <1>1 DEF Shared

(* Where openTable goes after the header and the indexes.                  *)
LEMMA ReadMoves ==
  ASSUME Local, NEW p \in Proc, Read(p)
  PROVE  /\ Local' /\ OnlyOf(p) /\ use'[p] = use[p]
         /\ job[p].at = "read" /\ ~job[p].bad /\ job'[p].todo = job[p].todo
         /\ \/ job'[p].at = "lock" /\ ~job'[p].bad
            \/ /\ job'[p].at = "store" /\ job'[p].bad /\ job'[p].call # "reindex"
               /\ Cur(p) \in damaged \cup raced
<1>1. job[p].at = "read" /\ use' = use
  BY DEF Read, At
<1>2. /\ job[p] \in Jobs /\ LocalOK(job[p], use[p]) /\ ~job[p].bad
  BY <1>1 DEF Local, Typed, LocalOK
<1>3. CASE Goto(p, "lock")
  BY <1>1, <1>2, <1>3, GotoBefore
<1>4. CASE /\ Cur(p) \in damaged \cup raced /\ job[p].call # "reindex"
           /\ job' = [job EXCEPT ![p].at = "store", ![p].bad = TRUE]
  <2> DEFINE j == [job[p] EXCEPT !.at = "store", !.bad = TRUE]
  <2>1. /\ j \in Jobs /\ j.at = "store" /\ j.bad = TRUE /\ j.todo = job[p].todo
        /\ j.call = job[p].call
    BY <1>2 DEF Jobs
  <2>2. LocalOK(j, use[p])
    BY <1>1, <1>2, <2>1 DEF LocalOK, Before, Behind
  <2>3. job' = [job EXCEPT ![p] = j]
    BY <1>4 DEF Local, Typed
  <2>4. Local' /\ OnlyOf(p) /\ job'[p] = j /\ use'[p] = use[p]
    BY <1>1, <2>1, <2>2, <2>3, LocalOfJob
  <2> QED BY <1>1, <1>2, <1>4, <2>1, <2>4
<1> QED BY <1>3, <1>4 DEF Read

(* Reading changes nothing between the processes.                          *)
LEMMA ReadShared ==
  ASSUME Local, Shared, NEW p \in Proc, Read(p)
  PROVE  Local' /\ Shared'
<1>1. lck' = lck /\ raced' = raced
  BY DEF Read
<1>2. \A t \in Tables : InGap(p, t)' <=> InGap(p, t)
  BY ReadMoves DEF InGap, Cur
<1> QED BY <1>1, <1>2, ReadMoves, SameGap

(* Where openTable and openTableNoIndexes go after the .LCK file.          *)
LEMMA LockMoves ==
  ASSUME Local, NEW p \in Proc, Lock(p)
  PROVE  /\ Local' /\ OnlyOf(p)
         /\ job[p].at = "lock" /\ ~job[p].bad /\ Cur(p) \in Tables
         /\ job'[p].at \in {"none", "test", "keys"} /\ ~job'[p].bad
         /\ use'[p][Cur(p)] # "free"
         /\ \A t \in Tables \ {Cur(p)} : use'[p][t] = use[p][t]
<1> DEFINE c == Cur(p)
           u == [use[p] EXCEPT ![c] = UseFor(p)]
           j == IF job[p].call = "reindex" THEN [job[p] EXCEPT !.at = "keys"]
                ELSE Following(job[p], "test")
<1>1. /\ job[p].at = "lock" /\ lck' = lck \cup {c} /\ raced' = raced
      /\ use' = [use EXCEPT ![p][c] = UseFor(p)] /\ job' = [job EXCEPT ![p] = j]
  BY DEF Lock, At
<1>2. /\ job[p] \in Jobs /\ LocalOK(job[p], use[p]) /\ ~job[p].bad /\ Before(job[p])
      /\ use[p] \in [Tables -> Uses] /\ c \in Tables
  BY <1>1, CurIsTable DEF Local, Typed, LocalOK, Before
<1>3. UseFor(p) \in Uses /\ UseFor(p) # "free"
  BY DEF UseFor, Uses
<1>4. /\ u \in [Tables -> Uses] /\ u[c] # "free"
      /\ \A t \in Tables \ {c} : u[t] = use[p][t]
  BY <1>2, <1>3
<1>5. /\ j \in Jobs /\ LocalOK(j, u) /\ j.at \in {"none", "test", "keys"} /\ ~j.bad
  <2>1. CASE job[p].call = "reindex"
    <3>1. /\ j \in Jobs /\ j.at = "keys" /\ j.bad = job[p].bad /\ j.todo = job[p].todo
          /\ j.call = job[p].call
      BY <1>2, <2>1 DEF Jobs
    <3>2. DOMAIN j.todo = {1} /\ j.todo[1] = c
      BY <1>2, <2>1, <3>1 DEF LocalOK, Cur, Jobs
    <3> QED BY <1>2, <1>4, <3>1, <3>2 DEF LocalOK, Before, Behind
  <2>2. CASE job[p].call # "reindex"
    <3> DEFINE k == Following(job[p], "test")
    <3>1. c = Head(job[p].todo) /\ j = k
      BY <2>2 DEF Cur
    <3> HIDE DEF j, u
    <3>2. k \in Jobs /\ LocalOK(k, u) /\ k.at \in {"none", "test"} /\ ~k.bad
      BY <1>1, <1>2, <1>4, <3>1, FollowingOK
    <3> QED BY <3>1, <3>2
  <2> QED BY <2>1, <2>2
<1>6. use' = [use EXCEPT ![p] = u] /\ job' = [job EXCEPT ![p] = j]
  BY <1>1 DEF Local, Typed
<1> HIDE DEF j, u
<1>7. Local' /\ OnlyOf(p) /\ job'[p] = j /\ use'[p] = u
  BY <1>4, <1>5, <1>6, LocalOfOne
<1> QED BY <1>1, <1>2, <1>4, <1>5, <1>7

(* The .LCK file makes the gap of p a table it holds.                      *)
LEMMA LockShared ==
  ASSUME Local, Shared, NEW p \in Proc, Lock(p)
  PROVE  Local' /\ Shared'
<1> DEFINE c == Cur(p)
<1>1. lck' = lck \cup {c} /\ raced' = raced
  BY DEF Lock
<1>2. ASSUME NEW t \in Tables \ raced' PROVE Exclusive(t)'
  <2>1. ~InGap(p, t)' /\ Exclusive(t)
    BY <1>1, LockMoves DEF InGap, Shared
  <2>2. CASE t = c
    <3>1. In(p, t)
      BY LockMoves, <2>2 DEF In, InGap
    <3> QED BY <1>1, LockMoves, <2>1, <2>2, <3>1, Quiet
  <2>3. CASE t # c
    <3>1. ~InGap(p, t)
      BY <2>3 DEF InGap
    <3>2. (In(p, t)' <=> In(p, t)) /\ (Holds(p, t)' <=> Holds(p, t))
      BY LockMoves, <2>1, <2>3, <3>1 DEF In, Holds
    <3> QED BY <1>1, LockMoves, <2>1, <3>2, Quiet DEF Exclusive
  <2> QED BY <2>2, <2>3
<1> QED BY <1>2, LockMoves DEF Shared

(* reindexTable's loop and the first step of closeTable.                   *)
LEMMA CloserShared ==
  ASSUME Local, Shared, NEW p \in Proc, Rekey(p) \/ Store(p)
  PROVE  Local' /\ Shared'
<1>1. PICK at \in {"store", "unlock"} :
        /\ job[p].at \in {"keys", "store"} /\ Goto(p, at) /\ use' = use
        /\ lck' = lck /\ raced' = raced
  BY DEF Rekey, Store, At
<1>2. /\ Local' /\ OnlyOf(p) /\ use'[p] = use[p]
      /\ job'[p].at = at /\ job'[p].todo = job[p].todo /\ job'[p].bad = job[p].bad
  BY <1>1, GotoBehind
<1>4. \A t \in Tables : InGap(p, t)' <=> InGap(p, t)
  BY <1>1, <1>2 DEF InGap, Cur
<1> QED BY <1>1, <1>2, <1>4, SameGap

(* closeTable removes the .LCK file of a table no other process is in.     *)
LEMMA UnlockShared ==
  ASSUME Local, Shared, NEW p \in Proc, Unlock(p)
  PROVE  Local' /\ Shared'
<1> DEFINE c == Cur(p)
<1>1. /\ job[p].at = "unlock" /\ Goto(p, "indexes") /\ use' = use
      /\ lck' = lck \ {c} /\ raced' = raced
  BY DEF Unlock, At
<1>2. /\ Local' /\ OnlyOf(p) /\ use'[p] = use[p]
      /\ job'[p].at = "indexes" /\ job'[p].todo = job[p].todo /\ job'[p].bad = job[p].bad
  BY <1>1, GotoBehind
<1>3. /\ job[p] \in Jobs /\ LocalOK(job[p], use[p]) /\ c \in Tables
      /\ \E i \in DOMAIN job[p].todo : c = job[p].todo[i]
  BY <1>1, CurIsTable DEF Local, Typed
<1>5. ASSUME NEW t \in Tables \ raced' PROVE Exclusive(t)'
  <2>1. Exclusive(t)
    BY <1>1 DEF Shared
  <2>2. CASE t = c
    <3>1. In(p, t)
      BY <1>1, <1>3, <2>2 DEF In, InGap, LocalOK, Behind
    <3>2. InGap(p, t)'
      BY <1>2, <2>2 DEF InGap, Cur
    <3>3. \A q \in Proc \ {p} : ~In(q, t)
      BY <2>1, <3>1 DEF Exclusive, Others
    <3> QED BY <1>2, <3>2, <3>3, Alone DEF Holds
  <2>3. CASE t # c
    <3>1. ~InGap(p, t) /\ ~InGap(p, t)'
      BY <1>1, <1>2, <2>3 DEF InGap, Cur
    <3>2. (In(p, t)' <=> In(p, t)) /\ (Holds(p, t)' <=> Holds(p, t))
      BY <1>2, <3>1 DEF In, Holds
    <3> QED BY <1>1, <1>2, <2>1, <2>3, <3>2, Quiet DEF Exclusive
  <2> QED BY <2>2, <2>3
<1> QED BY <1>2, <1>5 DEF Shared

(* Where closeTable goes after the indexes.                                *)
LEMMA IndexesMoves ==
  ASSUME Local, NEW p \in Proc, Indexes(p)
  PROVE  /\ Local' /\ OnlyOf(p) /\ job[p].at = "indexes" /\ Cur(p) \in Tables
         /\ use'[p][Cur(p)] = "free"
         /\ job'[p].at \in {"none", "store", "end"} /\ ~job'[p].bad
         /\ job'[p].at = "store" => job'[p].call # "reindex"
         /\ \A t \in Tables \ {Cur(p)} : use'[p][t] = "free" <=> use[p][t] = "free"
<1> DEFINE c == Cur(p)
<1>1. job[p].at = "indexes"
  BY DEF Indexes, At
<1>2. /\ job[p] \in Jobs /\ LocalOK(job[p], use[p]) /\ c \in Tables
      /\ c = Head(job[p].todo) /\ use[p] \in [Tables -> Uses]
      /\ \E i \in DOMAIN job[p].todo : c = job[p].todo[i]
  BY <1>1, CurIsTable DEF Local, Typed, Cur
<1>3. /\ Local' /\ OnlyOf(p) /\ use'[p][c] = "free"
      /\ job'[p].at \in {"none", "store", "end"} /\ ~job'[p].bad
      /\ job'[p].at = "store" => job'[p].call # "reindex"
      /\ \A t \in Tables \ {c} : use'[p][t] = "free" <=> use[p][t] = "free"
  <2>1. CASE job[p].bad
    <3>1. GiveUp(p) /\ use[p][c] = "free"
      BY <1>2, <2>1 DEF Indexes, LocalOK, Before
    <3>2. /\ Local' /\ OnlyOf(p) /\ job'[p] = Idle
          /\ \A t \in Tables : use'[p][t] = "free" <=> use[p][t] = "free"
      BY <3>1, GiveUpOK
    <3> QED BY <1>2, <3>1, <3>2 DEF Idle
  <2>2. CASE ~job[p].bad
    <3> DEFINE u == [use[p] EXCEPT ![c] = "free"]
               last == job[p].call = "exit" /\ Len(job[p].todo) = 1
               j == IF last THEN [job[p] EXCEPT !.at = "end"]
                    ELSE Following(job[p], "store")
    <3>1. /\ use' = [use EXCEPT ![p][c] = "free"] /\ job' = [job EXCEPT ![p] = j]
      BY <2>2 DEF Indexes, Local, Typed
    <3>2. use' = [use EXCEPT ![p] = u]
      BY <3>1 DEF Local, Typed
    <3>3. /\ u \in [Tables -> Uses] /\ u[c] = "free"
          /\ \A t \in Tables \ {c} : u[t] = use[p][t]
      BY <1>2 DEF Uses
    <3>4. /\ j \in Jobs /\ LocalOK(j, u)
          /\ j.at \in {"none", "store", "end"} /\ ~j.bad
          /\ j.at = "store" => j.call # "reindex"
      <4>1. CASE last
        <5>1. /\ j \in Jobs /\ j.at = "end" /\ j.bad = job[p].bad
              /\ j.todo = job[p].todo /\ j.call = job[p].call
          BY <1>2, <4>1 DEF Jobs
        <5>2. LocalOK(j, u)
          BY <1>2, <2>2, <4>1, <5>1 DEF LocalOK, Before, Behind
        <5> QED BY <2>2, <5>1, <5>2
      <4>2. CASE ~last
        <5> DEFINE k == Following(job[p], "store")
        <5>1. Behind(job[p]) /\ j = k
          BY <1>1, <2>2, <4>2 DEF Behind
        <5> HIDE DEF j, u
        <5>2. k \in Jobs /\ LocalOK(k, u) /\ k.at \in {"none", "store"} /\ ~k.bad
          BY <1>1, <1>2, <2>2, <3>3, <5>1, FollowingOK
        <5>3. k.call # "reindex"
          BY <1>2, FollowingCall
        <5> QED BY <5>1, <5>2, <5>3
      <4> QED BY <4>1, <4>2
    <3> HIDE DEF j, u
    <3>5. j \in Jobs /\ LocalOK(j, u)
      BY <3>4
    <3>6. Local' /\ OnlyOf(p) /\ job'[p] = j /\ use'[p] = u
      BY <3>1, <3>2, <3>3, <3>5, LocalOfOne
    <3> QED BY <3>3, <3>4, <3>6
  <2> QED BY <2>1, <2>2
<1> QED BY <1>1, <1>2, <1>3

(* closeTable closes the indexes and is out of the table.                  *)
LEMMA IndexesShared ==
  ASSUME Local, Shared, NEW p \in Proc, Indexes(p)
  PROVE  Local' /\ Shared'
<1> DEFINE c == Cur(p)
<1>1. lck' = lck /\ raced' = raced
  BY DEF Indexes
<1>2. ASSUME NEW t \in Tables \ raced' PROVE Exclusive(t)'
  <2>1. ~InGap(p, t)' /\ Exclusive(t)
    BY <1>1, IndexesMoves DEF InGap, Shared
  <2>2. CASE t = c
    <3>1. ~In(p, t)' /\ ~Holds(p, t)'
      BY IndexesMoves, <2>1, <2>2 DEF In, Holds
    <3> QED BY <1>1, IndexesMoves, <2>1, <3>1, Quiet
  <2>3. CASE t # c
    <3>1. ~InGap(p, t)
      BY <2>3, IndexesMoves DEF InGap
    <3>2. (In(p, t)' <=> In(p, t)) /\ (Holds(p, t)' <=> Holds(p, t))
      BY IndexesMoves, <2>1, <2>3, <3>1 DEF In, Holds
    <3> QED BY <1>1, IndexesMoves, <2>1, <3>2, Quiet DEF Exclusive
  <2> QED BY <2>2, <2>3
<1> QED BY <1>2, IndexesMoves DEF Shared

(* buildTable removes a .LCK file: of a table in use that makes it raced.  *)
LEMMA ScrapShared ==
  ASSUME Local, Shared, NEW p \in Proc, Scrap(p)
  PROVE  Local' /\ Shared'
<1> DEFINE c == Cur(p)
<1>1. /\ job[p].at = "scrap" /\ Goto(p, "make") /\ use' = use /\ lck' = lck \ {c}
      /\ \/ raced' = raced \cup {c}
         \/ raced' = raced /\ ~(c \in lck /\ Others(p, c) # {})
  BY DEF Scrap, At, Race
<1>2. /\ Local' /\ OnlyOf(p) /\ use'[p] = use[p]
      /\ job'[p].at = "make" /\ job'[p].todo = job[p].todo /\ job'[p].bad = job[p].bad
  BY <1>1, GotoBefore
<1>3. ~job[p].bad
  BY <1>1 DEF Local, LocalOK
<1>4. ASSUME NEW t \in Tables \ raced' PROVE Exclusive(t)'
  <2>1. ~InGap(p, t) /\ ~InGap(p, t)' /\ Exclusive(t)
    BY <1>1, <1>2, <1>3 DEF InGap, Shared
  <2>2. (In(p, t)' <=> In(p, t)) /\ (Holds(p, t)' <=> Holds(p, t))
    BY <1>2, <2>1 DEF In, Holds
  <2>3. CASE t # c
    BY <1>1, <1>2, <2>1, <2>2, <2>3, Quiet DEF Exclusive
  <2>4. CASE t = c
    <3>1. ~Holds(p, t)
      <4>1. c \in Tables /\ \E i \in DOMAIN job[p].todo : c = job[p].todo[i]
        BY <1>1, CurIsTable
      <4>2. use[p][c] = "free"
        BY <1>1, <4>1 DEF Local, LocalOK, Before
      <4> QED BY <2>4, <4>2 DEF Holds
    <3>2. t \in lck => \A q \in Proc \ {p} : ~In(q, t)
      BY <1>1, <2>4 DEF Others
    <3> QED BY <1>2, <2>1, <2>2, <3>1, <3>2, Quiet
  <2> QED BY <2>3, <2>4
<1> QED BY <1>2, <1>4 DEF Shared

(* createTable puts a new file in place of the old one.                    *)
LEMMA MakeShared ==
  ASSUME Local, Shared, NEW p \in Proc, Make(p)
  PROVE  Local' /\ Shared'
<1> DEFINE c == Cur(p)
<1>1. job[p].at = "make"
  BY DEF Make, At
<1>2. CASE c \in lck
  BY <1>2, GoneShared DEF Make
<1>3. CASE c \notin lck
  <2>1. /\ Goto(p, "lock") /\ use' = use /\ lck' = lck
        /\ \/ raced' = raced \cup {c}
           \/ raced' = raced \ {c} /\ Others(p, c) = {}
    BY <1>3 DEF Make, Race
  <2>2. /\ Local' /\ OnlyOf(p) /\ use'[p] = use[p]
        /\ job'[p].at = "lock" /\ job'[p].todo = job[p].todo /\ job'[p].bad = job[p].bad
    BY <1>1, <2>1, GotoBefore
  <2>3. ~job[p].bad
    BY <1>1 DEF Local, LocalOK
  <2>4. ASSUME NEW t \in Tables \ raced' PROVE Exclusive(t)'
    <3>1. CASE t # c
      <4>1. Exclusive(t)
        BY <2>1, <3>1 DEF Shared
      <4>2. ~InGap(p, t) /\ ~InGap(p, t)'
        BY <1>1, <2>2, <2>3, <3>1 DEF InGap, Cur
      <4>3. (In(p, t)' <=> In(p, t)) /\ (Holds(p, t)' <=> Holds(p, t))
        BY <2>2, <4>2 DEF In, Holds
      <4> QED BY <2>1, <2>2, <4>1, <4>3, Quiet DEF Exclusive
    <3>2. CASE t = c
      <4>1. \A q \in Proc \ {p} : ~In(q, t)
        BY <2>1, <3>2 DEF Others
      <4>2. InGap(p, t)'
        BY <1>1, <2>2, <3>2 DEF InGap, Cur
      <4> QED BY <2>2, <4>1, <4>2, Alone DEF Holds
    <3> QED BY <3>1, <3>2
  <2> QED BY <2>2, <2>4 DEF Shared
<1> QED BY <1>2, <1>3

(* Edits, and the start of a process, leave all of this alone.             *)
LEMMA EditsShared ==
  ASSUME Local, Shared, UNCHANGED <<lck, job, use, raced>>
  PROVE  Local' /\ Shared'
BY DEF Local, Typed, Shared, Exclusive, In, InGap, Holds, Others, Cur

(* The .LCK file of nobody is removed.                                     *)
LEMMA RemoveLockShared ==
  ASSUME Local, Shared, NEW c \in Tables, RemoveLock(c)
  PROVE  Local' /\ Shared'
<1>1. /\ job' = job /\ use' = use /\ raced' = raced /\ lck' = lck \ {c}
      /\ \A p \in Proc : ~In(p, c)
  BY DEF RemoveLock
<1>2. Local' /\ \A p \in Proc, t \in Tables : /\ In(p, t)' <=> In(p, t)
                                              /\ Holds(p, t)' <=> Holds(p, t)
                                              /\ Others(p, t)' = Others(p, t)
  BY <1>1 DEF Local, Typed, In, InGap, Holds, Others, Cur
<1>3. \A p \in Proc : ~Holds(p, c)
  BY <1>1 DEF Holds, In
<1> QED BY <1>1, <1>2, <1>3 DEF Shared, Exclusive

-----------------------------------------------------------------------------
(* At first there is no process in a table.                                *)
LEMMA InitShared == Init => Local /\ Shared
<1> SUFFICES ASSUME Init PROVE Local /\ Shared
  OBVIOUS
<1>1. \A p \in Proc : job[p] = Idle /\ use[p] = [t \in Tables |-> "free"]
  BY DEF Init
<1>2. Typed
  BY IdleOK DEF Init, Typed, Uses
<1>3. \A p \in Proc, t \in Tables : ~In(p, t)
  BY <1>1 DEF In, InGap, Idle
<1>4. Local
  BY <1>1, <1>2, IdleOK DEF Local
<1>5. Shared
  BY <1>3 DEF Shared, Exclusive, Holds, In
<1> QED BY <1>4, <1>5

(* Every step keeps what SharedOnlyByRace follows from.                    *)
LEMMA StepShared ==
  ASSUME Local, Shared, [Next]_vars
  PROVE  Local' /\ Shared'
<1>1. CASE UNCHANGED vars
  BY <1>1, EditsShared DEF vars
<1>2. CASE \E t \in Tables : RemoveLock(t)
  BY <1>2, RemoveLockShared
<1>3. ASSUME NEW p \in Proc, Call(p) \/ Step(p) \/ Kill(p) \/ Start(p)
      PROVE  Local' /\ Shared'
  <2>1. CASE Start(p)
    BY <2>1, EditsShared DEF Start
  <2>2. CASE Kill(p) \/ Exit(p) \/ End(p)
    BY <2>2, GoneShared DEF Kill, Exit, End
  <2>3. CASE \E t \in Tables : dbseq(p, t) \/ addRecord(p, t)
    BY <2>3, EditsShared DEF dbseq, addRecord
  <2>4. CASE \/ \E t \in Tables : dbopen(p, t) \/ dbclose(p, t) \/ dbreindex(p, t)
                                    \/ buildTable(p, t)
             \/ wsOpen(p) \/ wsClose(p) \/ dbexit(p)
    BY <2>4, BeginsShared
  <2>5. CASE Step(p) /\ ~End(p)
    BY <2>5, TestShared, ReadShared, LockShared, CloserShared, UnlockShared,
       IndexesShared, ScrapShared, MakeShared DEF Step
  <2> QED BY <1>3, <2>1, <2>2, <2>3, <2>4, <2>5 DEF Call, Step
<1> QED BY <1>1, <1>2, <1>3 DEF Next

(* A table is shared only through one of the gaps, and is locked as long   *)
(* as a process relies on it (openTable and closeTable, cdbtable.c).       *)
THEOREM SessionShared == Spec => []SharedOnlyByRace
<1>1. Local /\ Shared => SharedOnlyByRace
  BY DEF Shared, Exclusive, SharedOnlyByRace
<1>2. Local /\ Shared /\ [Next]_vars => Local' /\ Shared'
  BY StepShared
<1> QED BY <1>1, <1>2, InitShared, PTL DEF Spec

-----------------------------------------------------------------------------
(* What the copies and the files hold, of a table that is not shared.      *)
Copy == [num : Nat, seq : Nat, keys : SUBSET Nat]

DataTyped ==
  /\ file \in [Tables -> Copy]
  /\ mem \in [Proc -> [Tables -> Copy]]
  /\ issued \in [Tables -> Nat]

HasCopy(p, t) == In(p, t) /\ ~(job[p].at = "read" /\ Cur(p) = t)
Rekeyed(p, t) ==
  job[p].at \in {"store", "unlock", "indexes"} /\ Cur(p) = t /\ job[p].call = "reindex"
Stored(p, t)  == job[p].at \in {"unlock", "indexes"} /\ Cur(p) = t
Failing(p, t) == job[p].bad /\ Cur(p) = t

Faithful(t) ==
  /\ file[t].seq = issued[t]
  /\ \A p \in Proc :
       /\ HasCopy(p, t) => mem[p][t].seq = issued[t]
       /\ HasCopy(p, t) /\ (t \notin damaged \/ Rekeyed(p, t)) =>
            mem[p][t].keys = 1 .. mem[p][t].num
       /\ Stored(p, t) => file[t].num = mem[p][t].num
       /\ Failing(p, t) => t \in damaged
  /\ t \notin damaged /\ (\A p \in Proc : use[p][t] = "free") =>
       file[t].keys = 1 .. file[t].num

(* A process has no copy of a table it is not in.                          *)
Absent == \A p \in Proc, t \in Tables : ~In(p, t) => mem[p][t] = Empty

Kept == DataTyped /\ Absent /\ \A t \in Tables \ raced : Faithful(t)

SInv == Local /\ Shared /\ Kept

(* The data of the others.                                                 *)
MemOnlyOf(p) == \A q \in Proc \ {p} : mem'[q] = mem[q]

(* What the others have copies of does not depend on the step of p.        *)
LEMMA OthersKeepCopies ==
  ASSUME NEW p \in Proc, OnlyOf(p), NEW q \in Proc \ {p}, NEW t
  PROVE  /\ HasCopy(q, t)' <=> HasCopy(q, t)
         /\ Rekeyed(q, t)' <=> Rekeyed(q, t)
         /\ Stored(q, t)' <=> Stored(q, t)
         /\ Failing(q, t)' <=> Failing(q, t)
         /\ use'[q][t] = use[q][t]
BY DEF OnlyOf, HasCopy, Rekeyed, Stored, Failing, InGap, In, Cur

(* A step of p that is not about t.                                        *)
LEMMA StillFaithful ==
  ASSUME NEW p \in Proc, OnlyOf(p), NEW t, Faithful(t),
         \A q \in Proc \ {p} : mem'[q][t] = mem[q][t],
         file'[t] = file[t], issued'[t] = issued[t], t \in damaged => t \in damaged',
         HasCopy(p, t)' => HasCopy(p, t) /\ mem'[p][t] = mem[p][t],
         Rekeyed(p, t)' => Rekeyed(p, t),
         Stored(p, t)' => Stored(p, t) /\ mem'[p][t] = mem[p][t],
         Failing(p, t)' => Failing(p, t),
         use'[p][t] = "free" => use[p][t] = "free" \/ t \in damaged'
  PROVE  Faithful(t)'
<1>1. \A q \in Proc \ {p} :
        /\ HasCopy(q, t)' <=> HasCopy(q, t)
        /\ Rekeyed(q, t)' <=> Rekeyed(q, t)
        /\ Stored(q, t)' <=> Stored(q, t)
        /\ Failing(q, t)' <=> Failing(q, t)
        /\ use'[q][t] = use[q][t] /\ mem'[q][t] = mem[q][t]
  BY OthersKeepCopies
<1>2. ASSUME NEW q \in Proc
      PROVE  /\ HasCopy(q, t)' => mem'[q][t].seq = issued'[t]
             /\ HasCopy(q, t)' /\ (t \notin damaged' \/ Rekeyed(q, t)') =>
                  mem'[q][t].keys = 1 .. mem'[q][t].num
             /\ Stored(q, t)' => file'[t].num = mem'[q][t].num
             /\ Failing(q, t)' => t \in damaged'
  <2>1. CASE q = p
    BY <2>1 DEF Faithful
  <2>2. CASE q # p
    BY <1>1, <2>2 DEF Faithful
  <2> QED BY <2>1, <2>2
<1>3. t \notin damaged' /\ (\A q \in Proc : use'[q][t] = "free") =>
        file'[t].keys = 1 .. file'[t].num
  BY <1>1 DEF Faithful
<1>4. file'[t].seq = issued'[t]
  BY DEF Faithful
<1> QED BY <1>2, <1>3, <1>4 DEF Faithful

(* Absent after a step of p.                                               *)
LEMMA StillAbsent ==
  ASSUME NEW p \in Proc, OnlyOf(p), Absent,
         \A q \in Proc \ {p}, t \in Tables :
           mem'[q][t] = mem[q][t] \/ mem'[q][t] = Empty,
         \A t \in Tables : ~In(p, t)' => mem'[p][t] = Empty
  PROVE  Absent'
<1>1. \A q \in Proc \ {p}, t \in Tables : In(q, t)' <=> In(q, t)
  BY OthersKeep
<1> QED BY <1>1 DEF Absent

(* A step that changes nothing of the data, and for which p stays where it *)
(* is.                                                                     *)
LEMMA DataKept ==
  ASSUME Kept, NEW p \in Proc, OnlyOf(p), UNCHANGED <<file, mem, issued, raced, damaged>>,
         \A t \in Tables : /\ In(p, t) => In(p, t)'
                           /\ HasCopy(p, t)' => HasCopy(p, t)
                           /\ Rekeyed(p, t)' => Rekeyed(p, t)
                           /\ Stored(p, t)' => Stored(p, t)
                           /\ Failing(p, t)' => Failing(p, t)
                           /\ use'[p][t] = "free" => use[p][t] = "free"
  PROVE  Kept'
<1>1. DataTyped'
  BY DEF Kept, DataTyped
<1>2. Absent'
  <2>1. Absent /\ mem' = mem
    BY DEF Kept
  <2>2. \A t \in Tables : ~In(p, t)' => mem'[p][t] = Empty
    BY <2>1 DEF Absent
  <2> QED BY <2>1, <2>2, StillAbsent
<1>3. ASSUME NEW t \in Tables \ raced' PROVE Faithful(t)'
  <2>1. Faithful(t) /\ MemOnlyOf(p)
    BY DEF Kept, MemOnlyOf
  <2> QED BY <2>1, StillFaithful
<1> QED BY <1>1, <1>2, <1>3 DEF Kept

(* The first step of a call reads and writes no table.                     *)
LEMMA BeginsKept ==
  ASSUME SInv, NEW p \in Proc,
         \/ \E t \in Tables : dbopen(p, t) \/ dbclose(p, t) \/ dbreindex(p, t)
                                \/ buildTable(p, t)
         \/ wsOpen(p) \/ wsClose(p) \/ dbexit(p)
  PROVE  Kept'
<1>1. /\ OnlyOf(p) /\ use'[p] = use[p] /\ job[p].at = "none"
      /\ job'[p].at \in {"test", "store", "scrap"} /\ ~job'[p].bad
      /\ job'[p].at = "store" => job'[p].call # "reindex"
      /\ UNCHANGED <<file, mem, issued, raced, damaged>>
  BY BeginsOK DEF SInv
<1>2. \A t \in Tables : ~InGap(p, t) /\ ~InGap(p, t)'
  BY <1>1 DEF InGap
<1>3. \A t \in Tables : /\ In(p, t)' <=> In(p, t)
                        /\ HasCopy(p, t)' => HasCopy(p, t)
                        /\ ~Rekeyed(p, t)' /\ ~Stored(p, t)' /\ ~Failing(p, t)'
  BY <1>1, <1>2 DEF In, HasCopy, Rekeyed, Stored, Failing
<1> QED BY <1>1, <1>3, DataKept DEF SInv

(* What a table that has just been created holds.                          *)
LEMMA EmptyIsCopy == Empty \in Copy /\ Empty.num = 0 /\ Empty.seq = 0 /\ Empty.keys = {}
BY DEF Empty, Copy

(* A process that goes makes damaged the tables it had.                    *)
LEMMA GoneKept ==
  ASSUME SInv, NEW p \in Proc, NEW how, Gone(p, how)
  PROVE  Kept'
<1>1. /\ OnlyOf(p) /\ job'[p] = Idle /\ use'[p] = [t \in Tables |-> "free"]
  BY GoneOK DEF SInv
<1>2. /\ UNCHANGED <<file, issued, raced>>
      /\ damaged' = damaged \cup {t \in Tables : use[p][t] # "free"}
      /\ mem' = [mem EXCEPT ![p] = [t \in Tables |-> Empty]]
  BY DEF Gone
<1>3. \A t \in Tables : /\ ~In(p, t)' /\ ~HasCopy(p, t)'
                        /\ ~Rekeyed(p, t)' /\ ~Stored(p, t)' /\ ~Failing(p, t)'
  BY <1>1 DEF In, InGap, HasCopy, Rekeyed, Stored, Failing, Idle
<1>4. DataTyped' /\ MemOnlyOf(p) /\ \A t \in Tables : mem'[p][t] = Empty
  BY <1>2, EmptyIsCopy DEF SInv, Kept, DataTyped, MemOnlyOf
<1>5. Absent'
  BY <1>1, <1>4, StillAbsent DEF SInv, Kept, MemOnlyOf
<1>6. ASSUME NEW t \in Tables \ raced' PROVE Faithful(t)'
  <2>1. Faithful(t)
    BY <1>2 DEF SInv, Kept
  <2>2. use[p][t] # "free" => t \in damaged'
    BY <1>2
  <2> QED BY <1>1, <1>2, <1>3, <1>4, <2>1, <2>2, StillFaithful
<1> QED BY <1>4, <1>5, <1>6 DEF Kept

(* The data of a table that becomes shared.                                *)
LEMMA RaceKept ==
  ASSUME NEW c \in Tables, Race(c), DataTyped
  PROVE  /\ file' \in [Tables -> Copy] /\ mem' \in [Proc -> [Tables -> Copy]]
         /\ \A t \in Tables \ {c} : file'[t] = file[t]
                                      /\ \A q \in Proc : mem'[q][t] = mem[q][t]
         /\ \A q \in Proc : mem'[q][c] = Empty
         /\ raced' = raced \cup {c}
BY EmptyIsCopy DEF Race, DataTyped

(* What p knows of a table it is not in.                                   *)
LEMMA OutOfTable ==
  ASSUME Local, NEW q \in Proc, NEW t \in Tables, ~In(q, t)
  PROVE  ~HasCopy(q, t) /\ ~Stored(q, t) /\ ~Failing(q, t) /\ use[q][t] = "free"
<1>1. use[q][t] = "free" /\ ~InGap(q, t) /\ ~HasCopy(q, t)
  BY DEF In, HasCopy
<1>2. LocalOK(job[q], use[q]) /\ job[q] \in Jobs
  BY DEF Local, Typed
<1>3. ~Failing(q, t)
  BY <1>1, <1>2 DEF Failing, InGap, LocalOK
<1>4. ~Stored(q, t)
  <2> SUFFICES ASSUME Stored(q, t) PROVE FALSE
    OBVIOUS
  <2>1. job[q].at \in {"unlock", "indexes"} /\ Cur(q) = t /\ ~job[q].bad
    BY <1>3 DEF Stored, Failing
  <2>2. \E i \in DOMAIN job[q].todo : t = job[q].todo[i]
    BY <2>1, CurIsTable
  <2> QED BY <1>1, <1>2, <2>1, <2>2 DEF LocalOK, Behind
<1> QED BY <1>1, <1>3, <1>4

(* A step of p about a table no other process is in.                       *)
LEMMA AloneFaithful ==
  ASSUME Local, NEW p \in Proc, OnlyOf(p), NEW t \in Tables,
         \A q \in Proc \ {p} : ~In(q, t),
         file'[t].seq = issued'[t],
         HasCopy(p, t)' => mem'[p][t].seq = issued'[t],
         HasCopy(p, t)' /\ (t \notin damaged' \/ Rekeyed(p, t)') =>
           mem'[p][t].keys = 1 .. mem'[p][t].num,
         Stored(p, t)' => file'[t].num = mem'[p][t].num,
         Failing(p, t)' => t \in damaged',
         t \notin damaged' /\ use'[p][t] = "free" => file'[t].keys = 1 .. file'[t].num
  PROVE  Faithful(t)'
<1>1. \A q \in Proc \ {p} : ~HasCopy(q, t)' /\ ~Stored(q, t)' /\ ~Failing(q, t)'
  BY OutOfTable, OthersKeepCopies
<1>2. ASSUME NEW q \in Proc
      PROVE  /\ HasCopy(q, t)' => mem'[q][t].seq = issued'[t]
             /\ HasCopy(q, t)' /\ (t \notin damaged' \/ Rekeyed(q, t)') =>
                  mem'[q][t].keys = 1 .. mem'[q][t].num
             /\ Stored(q, t)' => file'[t].num = mem'[q][t].num
             /\ Failing(q, t)' => t \in damaged'
  <2>1. CASE q = p
    BY <2>1
  <2>2. CASE q # p
    BY <1>1, <2>2
  <2> QED BY <2>1, <2>2
<1> QED BY <1>2 DEF Faithful

(* A step of the call of p for its table, seen from another one.           *)
LEMMA OtherTable ==
  ASSUME NEW p \in Proc, job[p].at # "none", job'[p].todo = job[p].todo,
         use'[p] = use[p], NEW t, t # Cur(p)
  PROVE  /\ In(p, t)' <=> In(p, t)
         /\ HasCopy(p, t)' => HasCopy(p, t)
         /\ ~Rekeyed(p, t)' /\ ~Stored(p, t)' /\ ~Failing(p, t)'
<1>1. Cur(p)' = Cur(p)
  BY DEF Cur
<1>2. ~InGap(p, t) /\ ~InGap(p, t)'
  BY <1>1 DEF InGap
<1> QED BY <1>1, <1>2 DEF In, HasCopy, Rekeyed, Stored, Failing

(* Such a step changes at most the data of its table.                      *)
LEMMA CallKept ==
  ASSUME SInv, NEW p \in Proc, OnlyOf(p), MemOnlyOf(p), DataTyped',
         job[p].at # "none", job'[p].todo = job[p].todo, use'[p] = use[p],
         NEW c \in Tables, c = Cur(p),
         \A t \in Tables \ {c} : /\ file'[t] = file[t] /\ mem'[p][t] = mem[p][t]
                                 /\ issued'[t] = issued[t]
                                 /\ t \in damaged => t \in damaged'
                                 /\ t \in raced => t \in raced',
         ~In(p, c)' => mem'[p][c] = Empty,
         c \notin raced' => Faithful(c)'
  PROVE  Kept'
<1>1. Absent'
  <2>1. ASSUME NEW t \in Tables, ~In(p, t)' PROVE mem'[p][t] = Empty
    <3>1. CASE t = c
      BY <2>1, <3>1
    <3>2. CASE t # c
      <4>1. ~In(p, t)
        BY <2>1, <3>2, OtherTable
      <4> QED BY <3>2, <4>1 DEF SInv, Kept, Absent
    <3> QED BY <3>1, <3>2
  <2> QED BY <2>1, StillAbsent DEF SInv, Kept, MemOnlyOf
<1>2. ASSUME NEW t \in Tables \ raced' PROVE Faithful(t)'
  <2>1. CASE t = c
    BY <1>2, <2>1
  <2>2. CASE t # c
    <3>1. Faithful(t)
      BY <1>2, <2>2 DEF SInv, Kept
    <3>2. /\ HasCopy(p, t)' => HasCopy(p, t)
          /\ ~Rekeyed(p, t)' /\ ~Stored(p, t)' /\ ~Failing(p, t)'
      BY <2>2, OtherTable
    <3>3. /\ file'[t] = file[t] /\ mem'[p][t] = mem[p][t] /\ issued'[t] = issued[t]
          /\ t \in damaged => t \in damaged'
          /\ \A q \in Proc \ {p} : mem'[q][t] = mem[q][t]
      BY <2>2 DEF MemOnlyOf
    <3>4. use'[p][t] = use[p][t]
      OBVIOUS
    <3> QED BY <3>1, <3>2, <3>3, <3>4, StillFaithful
  <2> QED BY <2>1, <2>2
<1> QED BY <1>1, <1>2 DEF Kept

(* A step with which two processes are in the table.                       *)
LEMMA RacedKept ==
  ASSUME SInv, NEW p \in Proc, OnlyOf(p), NEW c \in Tables, c = Cur(p), Race(c),
         job[p].at # "none", job'[p].todo = job[p].todo, use'[p] = use[p],
         issued' \in [Tables -> Nat],
         \A t \in Tables \ {c} : issued'[t] = issued[t] /\ (t \in damaged => t \in damaged')
  PROVE  Kept'
<1>1. /\ file' \in [Tables -> Copy] /\ mem' \in [Proc -> [Tables -> Copy]]
      /\ \A t \in Tables \ {c} : file'[t] = file[t]
                                   /\ \A q \in Proc : mem'[q][t] = mem[q][t]
      /\ \A q \in Proc : mem'[q][c] = Empty
      /\ raced' = raced \cup {c}
  BY RaceKept DEF SInv, Kept
<1>2. DataTyped'
  BY <1>1 DEF DataTyped
<1>3. ASSUME NEW t \in Tables, t # c
      PROVE  /\ In(p, t)' <=> In(p, t)
             /\ HasCopy(p, t)' => HasCopy(p, t)
             /\ ~Rekeyed(p, t)' /\ ~Stored(p, t)' /\ ~Failing(p, t)'
  BY <1>3, OtherTable
<1>4. Absent'
  <2>1. \A q \in Proc \ {p}, t \in Tables :
          mem'[q][t] = mem[q][t] \/ mem'[q][t] = Empty
    BY <1>1
  <2>2. ASSUME NEW t \in Tables, ~In(p, t)' PROVE mem'[p][t] = Empty
    BY <1>1, <1>3, <2>2 DEF SInv, Kept, Absent
  <2> QED BY <2>1, <2>2, StillAbsent DEF SInv, Kept
<1>5. ASSUME NEW t \in Tables \ raced' PROVE Faithful(t)'
  <2>1. t # c /\ Faithful(t)
    BY <1>1 DEF SInv, Kept
  <2>2. /\ file'[t] = file[t] /\ issued'[t] = issued[t]
        /\ t \in damaged => t \in damaged'
        /\ \A q \in Proc : mem'[q][t] = mem[q][t]
    BY <1>1, <2>1
  <2>3. /\ HasCopy(p, t)' => HasCopy(p, t)
        /\ ~Rekeyed(p, t)' /\ ~Stored(p, t)' /\ ~Failing(p, t)'
    BY <1>3, <2>1
  <2>4. use'[p][t] = use[p][t]
    OBVIOUS
  <2> QED BY <2>1, <2>2, <2>3, <2>4, StillFaithful
<1> QED BY <1>2, <1>4, <1>5 DEF Kept

(* The process at a step between the test and the closing of the indexes   *)
(* is alone in the table, if that is not shared.                           *)
LEMMA AloneIn ==
  ASSUME SInv, NEW p \in Proc, NEW t \in Tables, In(p, t), t \notin raced
  PROVE  \A q \in Proc \ {p} : ~In(q, t)
BY DEF SInv, Shared, Exclusive, Others

(* A process is in the table between the test and the closing of the       *)
(* indexes, and has it from the .LCK file on.                              *)
LEMMA InCur ==
  ASSUME Local, NEW p \in Proc,
         job[p].at \in {"read", "lock", "keys", "store", "unlock", "indexes"}
  PROVE  /\ In(p, Cur(p)) /\ Cur(p) \in Tables
         /\ job[p].at = "keys" => use[p][Cur(p)] # "free" /\ ~job[p].bad
         /\ job[p].at = "read" => use[p][Cur(p)] = "free"
         /\ ~job[p].bad /\ job[p].at \in {"store", "unlock", "indexes"} =>
              use[p][Cur(p)] # "free"
<1>1. Cur(p) \in Tables /\ \E i \in DOMAIN job[p].todo : Cur(p) = job[p].todo[i]
  BY CurIsTable
<1>2. LocalOK(job[p], use[p])
  BY DEF Local
<1>3. job[p].at = "keys" => ~job[p].bad
  BY <1>2 DEF LocalOK
<1>4. /\ job[p].at = "read" => use[p][Cur(p)] = "free"
      /\ ~job[p].bad /\ job[p].at \in {"keys", "store", "unlock", "indexes"} =>
           use[p][Cur(p)] # "free"
  BY <1>1, <1>2 DEF LocalOK, Before, Behind
<1>5. In(p, Cur(p))
  BY <1>4 DEF In, InGap
<1> QED BY <1>1, <1>3, <1>4, <1>5

(* openTable looks for the .LCK file.                                      *)
LEMMA TestKept ==
  ASSUME SInv, NEW p \in Proc, Test(p)
  PROVE  Kept'
<1> DEFINE c == Cur(p)
<1>1. job[p].at = "test" /\ UNCHANGED <<issued, damaged>>
  BY DEF Test, At
<1>2. LocalOK(job[p], use[p]) /\ ~job[p].bad /\ c \in Tables
  BY <1>1, CurIsTable DEF SInv, Local, LocalOK
<1>3. CASE c \in lck
  <2>1. GiveUp(p) /\ UNCHANGED <<file, mem, raced>>
    BY <1>3 DEF Test
  <2>2. /\ OnlyOf(p) /\ job'[p] = Idle
        /\ \A t \in Tables : use'[p][t] = "free" <=> use[p][t] = "free"
    BY <2>1, GiveUpOK DEF SInv
  <2>3. \A t \in Tables : ~InGap(p, t) /\ ~InGap(p, t)'
    BY <1>1, <1>2, <2>2 DEF InGap, Idle
  <2>4. \A t \in Tables : /\ In(p, t) => In(p, t)'
                          /\ HasCopy(p, t)' => HasCopy(p, t)
                          /\ ~Rekeyed(p, t)' /\ ~Stored(p, t)' /\ ~Failing(p, t)'
    BY <1>1, <2>2, <2>3 DEF In, HasCopy, Rekeyed, Stored, Failing, Idle
  <2> QED BY <1>1, <2>1, <2>2, <2>4, DataKept DEF SInv
<1>4. CASE c \notin lck
  <2>1. Goto(p, "read") /\ use' = use /\ (Race(c) \/ UNCHANGED <<file, mem, raced>>)
    BY <1>4 DEF Test
  <2>2. /\ OnlyOf(p) /\ use'[p] = use[p]
        /\ job'[p].at = "read" /\ job'[p].todo = job[p].todo /\ ~job'[p].bad
    BY <1>1, <1>2, <2>1, GotoBefore DEF SInv
  <2>3. CASE Race(c)
    <3>1. issued' \in [Tables -> Nat]
      BY <1>1 DEF SInv, Kept, DataTyped
    <3> QED BY <1>1, <1>2, <2>2, <2>3, <3>1, RacedKept
  <2>4. CASE UNCHANGED <<file, mem, raced>>
    <3>1. \A t \in Tables : ~InGap(p, t)
      BY <1>1, <1>2 DEF InGap
    <3>2. \A t \in Tables : InGap(p, t)' => c = t
      BY <2>2 DEF InGap, Cur
    <3>3. \A t \in Tables : /\ In(p, t) => In(p, t)'
                            /\ HasCopy(p, t)' => HasCopy(p, t)
                            /\ ~Rekeyed(p, t)' /\ ~Stored(p, t)' /\ ~Failing(p, t)'
      BY <1>1, <2>2, <3>1, <3>2 DEF In, HasCopy, Rekeyed, Stored, Failing, Cur
    <3>4. \A t \in Tables : use'[p][t] = "free" => use[p][t] = "free"
      BY <2>2
    <3> QED BY <1>1, <2>2, <2>4, <3>3, <3>4, DataKept DEF SInv
  <2> QED BY <2>1, <2>3, <2>4
<1> QED BY <1>3, <1>4

(* openTable takes a copy of the header and of the indexes.                *)
LEMMA ReadKept ==
  ASSUME SInv, NEW p \in Proc, Read(p)
  PROVE  Kept'
<1>0. job[p].at = "read"
  BY DEF Read, At
<1>cur. PICK c \in Tables : c = Cur(p)
  BY <1>0, CurIsTable DEF SInv
<1>1. /\ mem' = [mem EXCEPT ![p][c] = file[c]]
      /\ UNCHANGED <<file, raced, damaged, issued>>
  BY <1>cur DEF Read
<1>2. Local
  BY DEF SInv
<1>3. /\ OnlyOf(p) /\ use'[p] = use[p]
      /\ job[p].at = "read" /\ ~job[p].bad /\ job'[p].todo = job[p].todo
      /\ \/ job'[p].at = "lock" /\ ~job'[p].bad
         \/ /\ job'[p].at = "store" /\ job'[p].bad /\ job'[p].call # "reindex"
            /\ c \in damaged \cup raced
  BY <1>cur, <1>2, ReadMoves
<1>4. In(p, c) /\ c \in Tables /\ use[p][c] = "free"
  BY <1>2, <1>3, <1>cur, InCur
<1>5. /\ DataTyped' /\ MemOnlyOf(p)
      /\ mem'[p][c] = file[c] /\ \A t \in Tables \ {c} : mem'[p][t] = mem[p][t]
  BY <1>1, <1>4 DEF SInv, Kept, DataTyped, MemOnlyOf
<1>6. In(p, c)'
  BY <1>3, <1>cur DEF In, InGap, Cur
<1>7. ASSUME c \notin raced' PROVE Faithful(c)'
  <2>1. /\ file[c].seq = issued[c]
        /\ c \notin damaged /\ (\A q \in Proc : use[q][c] = "free") =>
             file[c].keys = 1 .. file[c].num
    BY <1>1, <1>4, <1>7 DEF SInv, Kept, Faithful
  <2>2. \A q \in Proc \ {p} : ~In(q, c)
    BY <1>1, <1>4, <1>7, AloneIn
  <2>3. \A q \in Proc : use[q][c] = "free"
    BY <1>4, <2>2 DEF In
  <2>4. ~Rekeyed(p, c)' /\ ~Stored(p, c)' /\ (Failing(p, c)' => c \in damaged')
    BY <1>1, <1>3, <1>7, <1>cur DEF Rekeyed, Stored, Failing
  <2> QED BY <1>1, <1>2, <1>3, <1>4, <1>5, <2>1, <2>2, <2>3, <2>4, AloneFaithful
<1>8. job[p].at # "none"
  BY <1>3
<1> QED BY <1>1, <1>3, <1>4, <1>5, <1>6, <1>7, <1>8, <1>cur, CallKept

(* The .LCK file is created; the copy stays.                               *)
LEMMA LockKept ==
  ASSUME SInv, NEW p \in Proc, Lock(p)
  PROVE  Kept'
<1> DEFINE c == Cur(p)
<1>1. UNCHANGED <<file, mem, issued, raced, damaged>>
  BY DEF Lock
<1>2. /\ OnlyOf(p) /\ job[p].at = "lock" /\ ~job[p].bad
      /\ job'[p].at \in {"none", "test", "keys"} /\ ~job'[p].bad
      /\ use'[p][c] # "free" /\ \A t \in Tables \ {c} : use'[p][t] = use[p][t]
  BY LockMoves DEF SInv
<1>3. \A t \in Tables : ~InGap(p, t)' /\ (InGap(p, t) <=> t = c)
  BY <1>2 DEF InGap
<1>4. ASSUME NEW t \in Tables
      PROVE  /\ In(p, t)' <=> In(p, t)
             /\ HasCopy(p, t)' => HasCopy(p, t)
             /\ ~Rekeyed(p, t)' /\ ~Stored(p, t)' /\ ~Failing(p, t)'
             /\ use'[p][t] = "free" => use[p][t] = "free"
  BY <1>2, <1>3 DEF In, HasCopy, Rekeyed, Stored, Failing
<1> QED BY <1>1, <1>2, <1>4, DataKept DEF SInv

(* reindexTable lists the records of its header.                           *)
LEMMA RekeyKept ==
  ASSUME SInv, NEW p \in Proc, Rekey(p)
  PROVE  Kept'
<1>0. job[p].at = "keys"
  BY DEF Rekey, At
<1>cur. PICK c \in Tables : c = Cur(p)
  BY <1>0, CurIsTable DEF SInv
<1>1. /\ job[p].at = "keys" /\ Goto(p, "store") /\ use' = use
      /\ mem' = [mem EXCEPT ![p][c].keys = 1 .. mem[p][c].num]
      /\ UNCHANGED <<file, raced, damaged, issued>>
  BY <1>cur DEF Rekey, At
<1>2. Local
  BY DEF SInv
<1>3. /\ OnlyOf(p) /\ use'[p] = use[p]
      /\ job'[p].at = "store" /\ job'[p].todo = job[p].todo /\ job'[p].bad = job[p].bad
  BY <1>1, <1>2, GotoBehind
<1>4. In(p, c) /\ c \in Tables /\ use[p][c] # "free" /\ ~job[p].bad
  BY <1>1, <1>2, <1>cur, InCur
<1>5. mem[p][c] \in Copy
  BY <1>4 DEF SInv, Kept, DataTyped
<1>6. [mem[p][c] EXCEPT !.keys = 1 .. mem[p][c].num] \in Copy
  BY <1>5 DEF Copy
<1>7. /\ mem'[p][c] = [mem[p][c] EXCEPT !.keys = 1 .. mem[p][c].num]
      /\ MemOnlyOf(p) /\ \A t \in Tables \ {c} : mem'[p][t] = mem[p][t]
  BY <1>1, <1>4 DEF SInv, Kept, DataTyped, MemOnlyOf
<1>8. DataTyped'
  BY <1>1, <1>4, <1>6 DEF SInv, Kept, DataTyped
<1>9. /\ mem'[p][c].seq = mem[p][c].seq /\ mem'[p][c].num = mem[p][c].num
      /\ mem'[p][c].keys = 1 .. mem'[p][c].num
  BY <1>5, <1>7 DEF Copy
<1>10. In(p, c)'
  BY <1>3, <1>4 DEF In
<1>11. ASSUME c \notin raced' PROVE Faithful(c)'
  <2>1. HasCopy(p, c)
    BY <1>1, <1>4, <1>cur DEF HasCopy
  <2>2. file[c].seq = issued[c] /\ mem[p][c].seq = issued[c]
    BY <1>1, <1>4, <1>11, <2>1 DEF SInv, Kept, Faithful
  <2>3. \A q \in Proc \ {p} : ~In(q, c)
    BY <1>1, <1>4, <1>11, AloneIn
  <2>4. ~Stored(p, c)' /\ ~Failing(p, c)' /\ use'[p][c] # "free"
    BY <1>3, <1>4, <1>cur DEF Stored, Failing
  <2> QED BY <1>1, <1>2, <1>3, <1>4, <1>9, <2>2, <2>3, <2>4, AloneFaithful
<1>12. job[p].at # "none"
  BY <1>1
<1> QED BY <1>1, <1>3, <1>4, <1>7, <1>8, <1>10, <1>11, <1>12, <1>cur, CallKept

(* closeTable stores the header.                                           *)
LEMMA StoreKept ==
  ASSUME SInv, NEW p \in Proc, Store(p)
  PROVE  Kept'
<1>0. job[p].at = "store"
  BY DEF Store, At
<1>cur. PICK c \in Tables : c = Cur(p)
  BY <1>0, CurIsTable DEF SInv
<1> DEFINE f == [file[c] EXCEPT !.num = mem[p][c].num, !.seq = mem[p][c].seq]
<1>1. /\ job[p].at = "store" /\ Goto(p, "unlock") /\ use' = use
      /\ file' = [file EXCEPT ![c].num = mem[p][c].num, ![c].seq = mem[p][c].seq]
      /\ UNCHANGED <<mem, raced, damaged, issued>>
  BY <1>cur DEF Store, At
<1>2. Local
  BY DEF SInv
<1>3. /\ OnlyOf(p) /\ use'[p] = use[p]
      /\ job'[p].at = "unlock" /\ job'[p].todo = job[p].todo
      /\ job'[p].bad = job[p].bad /\ job'[p].call = job[p].call
  BY <1>1, <1>2, GotoBehind
<1>4. In(p, c) /\ c \in Tables /\ (~job[p].bad => use[p][c] # "free")
  BY <1>1, <1>2, <1>cur, InCur
<1>5. file \in [Tables -> Copy] /\ file[c] \in Copy /\ mem[p][c] \in Copy
  BY <1>4 DEF SInv, Kept, DataTyped
<1>6. /\ f \in Copy /\ f.num = mem[p][c].num /\ f.seq = mem[p][c].seq
      /\ f.keys = file[c].keys
  BY <1>5 DEF Copy
<1>7. file' = [file EXCEPT ![c] = f]
  BY <1>1, <1>4, <1>5
<1> HIDE DEF f
<1>8. /\ file'[c] = f /\ \A t \in Tables \ {c} : file'[t] = file[t]
      /\ file' \in [Tables -> Copy]
  BY <1>4, <1>5, <1>6, <1>7
<1>9. DataTyped' /\ MemOnlyOf(p)
  BY <1>1, <1>8 DEF SInv, Kept, DataTyped, MemOnlyOf
<1>10. In(p, c)'
  BY <1>3, <1>4, <1>cur DEF In, InGap, Cur
<1>11. ASSUME c \notin raced' PROVE Faithful(c)'
  <2>1. HasCopy(p, c) /\ Faithful(c)
    BY <1>1, <1>4, <1>11, <1>cur DEF HasCopy, SInv, Kept
  <2>2. /\ mem[p][c].seq = issued[c]
        /\ c \notin damaged \/ Rekeyed(p, c) => mem[p][c].keys = 1 .. mem[p][c].num
        /\ Failing(p, c) => c \in damaged
    BY <2>1 DEF Faithful
  <2>3. \A q \in Proc \ {p} : ~In(q, c)
    BY <1>1, <1>4, <1>11, AloneIn
  <2>4. Rekeyed(p, c)' => Rekeyed(p, c)
    BY <1>1, <1>3, <1>cur DEF Rekeyed, Cur
  <2>5. Failing(p, c)' => c \in damaged'
    BY <1>1, <1>3, <2>2, <1>cur DEF Failing, Cur
  <2>6. c \notin damaged' => use'[p][c] # "free"
    BY <1>1, <1>3, <1>4, <2>2, <1>cur DEF Failing
  <2> QED BY <1>1, <1>2, <1>3, <1>4, <1>6, <1>8, <2>2, <2>3, <2>4, <2>5, <2>6,
             AloneFaithful
<1>12. job[p].at # "none"
  BY <1>1
<1> QED BY <1>1, <1>3, <1>4, <1>8, <1>9, <1>10, <1>11, <1>12, <1>cur, CallKept

(* closeTable removes the .LCK file.                                       *)
LEMMA UnlockKept ==
  ASSUME SInv, NEW p \in Proc, Unlock(p)
  PROVE  Kept'
<1>1. /\ job[p].at = "unlock" /\ Goto(p, "indexes") /\ use' = use
      /\ UNCHANGED <<file, mem, issued, raced, damaged>>
  BY DEF Unlock, At
<1>2. Local
  BY DEF SInv
<1>3. /\ OnlyOf(p) /\ use'[p] = use[p]
      /\ job'[p].at = "indexes" /\ job'[p].todo = job[p].todo
      /\ job'[p].bad = job[p].bad /\ job'[p].call = job[p].call
  BY <1>1, <1>2, GotoBehind
<1>4. In(p, Cur(p)) /\ Cur(p)' = Cur(p)
  BY <1>1, <1>2, <1>3, InCur DEF Cur
<1>5. ASSUME NEW t \in Tables
      PROVE  /\ In(p, t) => In(p, t)'
             /\ HasCopy(p, t)' => HasCopy(p, t)
             /\ Rekeyed(p, t)' => Rekeyed(p, t)
             /\ Stored(p, t)' => Stored(p, t)
             /\ Failing(p, t)' => Failing(p, t)
             /\ use'[p][t] = "free" => use[p][t] = "free"
  BY <1>1, <1>3, <1>4 DEF In, InGap, HasCopy, Rekeyed, Stored, Failing
<1> QED BY <1>1, <1>3, <1>5, DataKept DEF SInv

(* closeTable stores the indexes: they list the records of the header      *)
(* unless the process before died and this is not dbreindex.               *)
LEMMA IndexesKept ==
  ASSUME SInv, NEW p \in Proc, Indexes(p)
  PROVE  Kept'
<1>1. Local
  BY DEF SInv
<1>cur. PICK c \in Tables : c = Cur(p)
  BY <1>1, IndexesMoves
<1>2. /\ file' = [file EXCEPT ![c].keys = mem[p][c].keys]
      /\ mem' = [mem EXCEPT ![p][c] = Empty]
      /\ damaged' = IF job[p].call = "reindex" THEN damaged \ {c} ELSE damaged
      /\ UNCHANGED <<raced, issued>>
  BY <1>cur DEF Indexes
<1>3. /\ OnlyOf(p) /\ job[p].at = "indexes" /\ use'[p][c] = "free"
      /\ job'[p].at \in {"none", "store", "end"} /\ ~job'[p].bad
      /\ job'[p].at = "store" => job'[p].call # "reindex"
      /\ \A t \in Tables \ {c} : use'[p][t] = "free" <=> use[p][t] = "free"
  BY <1>1, <1>cur, IndexesMoves
<1>4. In(p, c)
  BY <1>1, <1>3, <1>cur, InCur
<1>5. file[c] \in Copy /\ mem[p][c] \in Copy /\ file \in [Tables -> Copy]
  BY DEF SInv, Kept, DataTyped
<1> DEFINE f == [file[c] EXCEPT !.keys = mem[p][c].keys]
<1>6. f \in Copy /\ f.num = file[c].num /\ f.seq = file[c].seq /\ f.keys = mem[p][c].keys
  BY <1>5 DEF Copy
<1>7. file' = [file EXCEPT ![c] = f]
  BY <1>2, <1>5
<1> HIDE DEF f
<1>8. /\ file' \in [Tables -> Copy] /\ file'[c] = f
      /\ \A t \in Tables \ {c} : file'[t] = file[t]
  BY <1>5, <1>6, <1>7
<1>9. /\ MemOnlyOf(p) /\ mem'[p][c] = Empty
      /\ \A t \in Tables \ {c} : mem'[p][t] = mem[p][t]
  BY <1>2 DEF SInv, Kept, DataTyped, MemOnlyOf
<1>10. DataTyped'
  BY <1>2, <1>8, EmptyIsCopy DEF SInv, Kept, DataTyped
<1>11. \A t \in Tables : /\ ~InGap(p, t)' /\ ~Stored(p, t)' /\ ~Failing(p, t)'
                         /\ ~Rekeyed(p, t)'
                         /\ t # c => ~InGap(p, t)
  BY <1>3, <1>cur DEF InGap, Stored, Failing, Rekeyed
<1>12. \A t \in Tables \ {c} : /\ In(p, t)' <=> In(p, t)
                               /\ HasCopy(p, t)' => HasCopy(p, t)
  BY <1>3, <1>11 DEF In, HasCopy
<1>13. Absent'
  <2>1. ASSUME NEW t \in Tables, ~In(p, t)' PROVE mem'[p][t] = Empty
    BY <1>9, <1>12, <2>1 DEF SInv, Kept, Absent
  <2> QED BY <1>3, <1>9, <2>1, StillAbsent DEF SInv, Kept, MemOnlyOf
<1>14. ASSUME NEW t \in Tables \ raced' PROVE Faithful(t)'
  <2>1. Faithful(t) /\ t \notin raced
    BY <1>2 DEF SInv, Kept
  <2>2. CASE t # c
    <3>1. /\ file'[t] = file[t] /\ issued'[t] = issued[t] /\ mem'[p][t] = mem[p][t]
          /\ t \in damaged => t \in damaged'
          /\ \A q \in Proc \ {p} : mem'[q][t] = mem[q][t]
      BY <1>2, <1>8, <1>9, <2>2 DEF MemOnlyOf
    <3>2. /\ HasCopy(p, t)' => HasCopy(p, t)
          /\ ~Rekeyed(p, t)' /\ ~Stored(p, t)' /\ ~Failing(p, t)'
          /\ use'[p][t] = "free" => use[p][t] = "free"
      BY <1>3, <1>11, <1>12, <2>2
    <3> QED BY <1>3, <2>1, <3>1, <3>2, StillFaithful
  <2>3. CASE t = c
    <3>1. \A q \in Proc \ {p} : ~In(q, t)
      BY <1>4, <2>1, <2>3, AloneIn
    <3>2. HasCopy(p, t) /\ Stored(p, t)
      BY <1>3, <1>4, <1>cur, <2>3 DEF HasCopy, Stored
    <3>3. ~HasCopy(p, t)' /\ ~Stored(p, t)' /\ ~Failing(p, t)'
      BY <1>3, <1>11, <2>3 DEF HasCopy, In
    <3>4. file'[t].seq = issued'[t]
      BY <1>2, <1>6, <1>8, <2>1, <2>3 DEF Faithful
    <3>5. t \notin damaged' => t \notin damaged \/ Rekeyed(p, t)
      BY <1>2, <1>3, <1>cur, <2>3 DEF Rekeyed
    <3>6. /\ t \notin damaged \/ Rekeyed(p, t) => mem[p][t].keys = 1 .. mem[p][t].num
          /\ file[t].num = mem[p][t].num
      BY <2>1, <3>2 DEF Faithful
    <3>7. t \notin damaged' => file'[t].keys = 1 .. file'[t].num
      BY <1>6, <1>8, <2>3, <3>5, <3>6
    <3> QED BY <1>1, <1>3, <3>1, <3>3, <3>4, <3>7, AloneFaithful
  <2> QED BY <2>2, <2>3
<1> QED BY <1>10, <1>13, <1>14 DEF Kept

(* buildTable removes a .LCK file.                                         *)
LEMMA ScrapKept ==
  ASSUME SInv, NEW p \in Proc, Scrap(p)
  PROVE  Kept'
<1>1. /\ job[p].at = "scrap" /\ Goto(p, "make") /\ use' = use
      /\ Race(Cur(p)) \/ UNCHANGED <<file, mem, raced>>
      /\ UNCHANGED <<issued, damaged>>
  BY DEF Scrap, At
<1>2. Local
  BY DEF SInv
<1>3. /\ OnlyOf(p) /\ use'[p] = use[p]
      /\ job'[p].at = "make" /\ job'[p].todo = job[p].todo /\ job'[p].bad = job[p].bad
  BY <1>1, <1>2, GotoBefore
<1>4. Cur(p) \in Tables /\ ~job[p].bad
  BY <1>1, <1>2, CurIsTable DEF Local, LocalOK
<1>5. CASE Race(Cur(p))
  <2>1. issued' \in [Tables -> Nat]
    BY <1>1 DEF SInv, Kept, DataTyped
  <2> QED BY <1>1, <1>3, <1>4, <1>5, <2>1, RacedKept
<1>6. CASE UNCHANGED <<file, mem, raced>>
  <2>1. ASSUME NEW t \in Tables
        PROVE  /\ In(p, t) => In(p, t)'
               /\ HasCopy(p, t)' => HasCopy(p, t)
               /\ ~Rekeyed(p, t)' /\ ~Stored(p, t)' /\ ~Failing(p, t)'
               /\ use'[p][t] = "free" => use[p][t] = "free"
    BY <1>1, <1>3, <1>4 DEF In, InGap, HasCopy, Rekeyed, Stored, Failing
  <2> QED BY <1>1, <1>3, <1>6, <2>1, DataKept DEF SInv
<1> QED BY <1>1, <1>5, <1>6

(* createTable makes an empty table.                                       *)
LEMMA MakeKept ==
  ASSUME SInv, NEW p \in Proc, Make(p)
  PROVE  Kept'
<1>1. job[p].at = "make" /\ Local
  BY DEF Make, At, SInv
<1>2. Cur(p) \in Tables /\ ~job[p].bad /\ use[p][Cur(p)] = "free"
  BY <1>1, CurIsTable DEF Local, LocalOK, Before
<1>cur. PICK c \in Tables : c = Cur(p)
  BY <1>2
<1>3. CASE c \in lck
  BY <1>3, <1>cur, GoneKept DEF Make
<1>4. CASE c \notin lck
  <2>1. /\ Goto(p, "lock") /\ use' = use
        /\ damaged' = damaged \ {c} /\ issued' = [issued EXCEPT ![c] = 0]
        /\ \/ Race(c)
           \/ /\ Others(p, c) = {} /\ raced' = raced \ {c}
              /\ file' = [file EXCEPT ![c] = Empty] /\ mem' = mem
    BY <1>4, <1>cur DEF Make
  <2>2. /\ OnlyOf(p) /\ use'[p] = use[p]
        /\ job'[p].at = "lock" /\ job'[p].todo = job[p].todo /\ ~job'[p].bad
    BY <1>1, <1>2, <2>1, GotoBefore
  <2>3. issued' \in [Tables -> Nat] /\ issued'[c] = 0
        /\ \A t \in Tables \ {c} : issued'[t] = issued[t] /\ (t \in damaged => t \in damaged')
    BY <2>1 DEF SInv, Kept, DataTyped
  <2>4. CASE Race(c)
    BY <1>1, <1>cur, <2>2, <2>3, <2>4, RacedKept
  <2>5. CASE /\ Others(p, c) = {} /\ raced' = raced \ {c}
             /\ file' = [file EXCEPT ![c] = Empty] /\ mem' = mem
    <3>1. /\ DataTyped' /\ MemOnlyOf(p)
          /\ file'[c] = Empty /\ \A t \in Tables \ {c} : file'[t] = file[t]
      BY <2>3, <2>5, EmptyIsCopy DEF SInv, Kept, DataTyped, MemOnlyOf
    <3>2. In(p, c)' /\ ~In(p, c)
      BY <1>1, <1>2, <1>cur, <2>2 DEF In, InGap, Cur
    <3>3. mem'[p][c] = Empty
      BY <2>5, <3>2 DEF SInv, Kept, Absent
    <3>4. \A q \in Proc \ {p} : ~In(q, c)
      BY <2>5 DEF Others
    <3>5. ~Stored(p, c)' /\ ~Failing(p, c)'
      BY <2>2 DEF Stored, Failing
    <3>6. Empty.num = 0 /\ Empty.seq = 0 /\ Empty.keys = 1 .. Empty.num
      BY EmptyIsCopy
    <3>7. Faithful(c)'
      BY <1>1, <2>2, <2>3, <3>1, <3>3, <3>4, <3>5, <3>6, AloneFaithful
    <3>8. job[p].at # "none"
      BY <1>1
    <3>9. \A t \in Tables \ {c} : mem'[p][t] = mem[p][t] /\ (t \in raced => t \in raced')
      BY <2>5
    <3> QED BY <1>cur, <2>2, <2>3, <3>1, <3>2, <3>7, <3>8, <3>9, CallKept
  <2> QED BY <2>1, <2>4, <2>5
<1> QED BY <1>3, <1>4

(* An edit of a process that has the table, by dbseq or addRecord.         *)
LEMMA EditKept ==
  ASSUME SInv, NEW p \in Proc, NEW t \in Tables, UNCHANGED <<job, use, raced, damaged>>,
         job[p].at = "none", use[p][t] # "free", t \notin raced,
         NEW m \in Copy, mem' = [mem EXCEPT ![p][t] = m],
         NEW f \in Copy, file' = [file EXCEPT ![t] = f],
         NEW n \in Nat, issued' = [issued EXCEPT ![t] = n],
         f.seq = n, m.seq = n,
         t \notin damaged => m.keys = 1 .. m.num
  PROVE  Kept'
<1>1. OnlyOf(p) /\ Local /\ Faithful(t)
  BY DEF OnlyOf, SInv, Kept
<1>2. /\ DataTyped' /\ mem'[p][t] = m /\ file'[t] = f /\ issued'[t] = n /\ MemOnlyOf(p)
      /\ \A s \in Tables \ {t} :
           /\ file'[s] = file[s] /\ issued'[s] = issued[s] /\ mem'[p][s] = mem[p][s]
           /\ \A q \in Proc \ {p} : mem'[q][s] = mem[q][s]
  BY DEF SInv, Kept, DataTyped, MemOnlyOf
<1>3. In(p, t)
  BY DEF In
<1>4. \A s \in Tables : /\ In(p, s)' <=> In(p, s)
                        /\ HasCopy(p, s)' <=> HasCopy(p, s)
                        /\ ~Rekeyed(p, s)' /\ ~Stored(p, s)'
                        /\ Failing(p, s)' <=> Failing(p, s)
  BY DEF In, InGap, HasCopy, Rekeyed, Stored, Failing, Cur
<1>5. Absent'
  <2>1. ASSUME NEW s \in Tables, ~In(p, s)' PROVE mem'[p][s] = Empty
    BY <1>2, <1>3, <1>4, <2>1 DEF SInv, Kept, Absent
  <2> QED BY <1>1, <1>2, <2>1, StillAbsent DEF SInv, Kept, MemOnlyOf
<1>6. ASSUME NEW s \in Tables \ raced' PROVE Faithful(s)'
  <2>1. CASE s = t
    <3>1. \A q \in Proc \ {p} : ~In(q, t)
      BY <1>3, AloneIn
    <3>2. ~Failing(p, t)'
      BY <1>1, <1>4 DEF Failing, Local, LocalOK
    <3>3. use'[p][t] # "free"
      OBVIOUS
    <3> QED BY <1>1, <1>2, <1>4, <2>1, <3>1, <3>2, <3>3, AloneFaithful
  <2>2. CASE s # t
    <3>1. Faithful(s)
      BY <1>6 DEF SInv, Kept
    <3> QED BY <1>1, <1>2, <1>4, <2>2, <3>1, StillFaithful
  <2> QED BY <2>1, <2>2
<1> QED BY <1>2, <1>5, <1>6 DEF Kept

(* What a process that may edit has of the table.                          *)
LEMMA EditCopy ==
  ASSUME SInv, NEW p \in Proc, NEW t \in Tables, job[p].at = "none",
         use[p][t] # "free", t \notin raced
  PROVE  /\ mem[p][t] \in Copy /\ file[t] \in Copy /\ issued[t] \in Nat
         /\ mem \in [Proc -> [Tables -> Copy]] /\ file \in [Tables -> Copy]
         /\ issued \in [Tables -> Nat]
         /\ mem[p][t].seq = issued[t] /\ file[t].seq = issued[t]
         /\ t \notin damaged => mem[p][t].keys = 1 .. mem[p][t].num
<1>1. Faithful(t) /\ HasCopy(p, t)
  BY DEF SInv, Kept, HasCopy, In
<1> QED BY <1>1 DEF Faithful, SInv, Kept, DataTyped

(* dbseq stores the number it gives out.                                   *)
LEMMA dbseqKept ==
  ASSUME SInv, NEW p \in Proc, NEW t \in Tables, dbseq(p, t)
  PROVE  Kept'
<1>1. /\ job[p].at = "none" /\ use[p][t] = "handle" /\ t \notin raced
      /\ mem' = [mem EXCEPT ![p][t].seq = @ + 1]
      /\ file' = [file EXCEPT ![t].num = mem'[p][t].num, ![t].seq = mem'[p][t].seq]
      /\ issued' = [issued EXCEPT ![t] = @ + 1]
      /\ UNCHANGED <<job, use, raced, damaged>>
  BY DEF dbseq, MayEdit, Ready, At
<1>2. /\ mem[p][t] \in Copy /\ file[t] \in Copy /\ issued[t] \in Nat
      /\ mem \in [Proc -> [Tables -> Copy]] /\ file \in [Tables -> Copy]
      /\ issued \in [Tables -> Nat]
      /\ mem[p][t].seq = issued[t] /\ file[t].seq = issued[t]
      /\ t \notin damaged => mem[p][t].keys = 1 .. mem[p][t].num
  BY <1>1, EditCopy
<1> DEFINE m == [mem[p][t] EXCEPT !.seq = @ + 1]
           f == [file[t] EXCEPT !.num = m.num, !.seq = m.seq]
<1>3. /\ m \in Copy /\ m.seq = issued[t] + 1 /\ m.num = mem[p][t].num
      /\ m.keys = mem[p][t].keys
  <2>1. mem[p][t].seq + 1 \in Nat
    BY <1>2
  <2>2. /\ m \in Copy /\ m.seq = mem[p][t].seq + 1 /\ m.num = mem[p][t].num
        /\ m.keys = mem[p][t].keys
    BY <1>2, <2>1 DEF Copy
  <2> QED BY <1>2, <2>2
<1>4. mem' = [mem EXCEPT ![p][t] = m] /\ mem'[p][t] = m
  BY <1>1, <1>2
<1>5. f \in Copy /\ f.seq = issued[t] + 1
  BY <1>2, <1>3 DEF Copy
<1>6. file' = [file EXCEPT ![t] = f]
  BY <1>1, <1>2, <1>4
<1>7. issued[t] + 1 \in Nat /\ issued' = [issued EXCEPT ![t] = issued[t] + 1]
  BY <1>1, <1>2
<1>8. use[p][t] # "free"
  BY <1>1
<1>9. t \notin damaged => m.keys = 1 .. m.num
  BY <1>2, <1>3
<1>10. SInv /\ job[p].at = "none" /\ t \notin raced
  BY <1>1
<1>11. UNCHANGED <<job, use, raced, damaged>>
  BY <1>1
<1> HIDE DEF m, f
<1> QED BY <1>3, <1>4, <1>5, <1>6, <1>7, <1>8, <1>9, <1>10, <1>11, EditKept

(* addRecord stores sequence numbers at most again.                        *)
LEMMA addRecordKept ==
  ASSUME SInv, NEW p \in Proc, NEW t \in Tables, addRecord(p, t)
  PROVE  Kept'
<1> DEFINE n == mem[p][t].num + 1
           m == [mem[p][t] EXCEPT !.num = n, !.keys = @ \cup {n}]
           g == [file[t] EXCEPT !.num = n, !.seq = mem[p][t].seq]
           f == IF n % TABLE_FLUSH # 0 THEN g ELSE file[t]
<1>1. /\ job[p].at = "none" /\ use[p][t] # "free" /\ t \notin raced
      /\ mem' = [mem EXCEPT ![p][t].num = n, ![p][t].keys = @ \cup {n}]
      /\ file' = IF n % TABLE_FLUSH # 0
                   THEN [file EXCEPT ![t].num = n, ![t].seq = mem[p][t].seq] ELSE file
      /\ UNCHANGED <<issued, job, use, raced, damaged>>
  BY DEF addRecord, MayEdit, Ready, At
<1>2. /\ mem[p][t] \in Copy /\ file[t] \in Copy /\ issued[t] \in Nat
      /\ mem \in [Proc -> [Tables -> Copy]] /\ file \in [Tables -> Copy]
      /\ issued \in [Tables -> Nat]
      /\ mem[p][t].seq = issued[t] /\ file[t].seq = issued[t]
      /\ t \notin damaged => mem[p][t].keys = 1 .. mem[p][t].num
  BY <1>1, EditCopy
<1>3. /\ n \in Nat /\ m \in Copy /\ m.seq = issued[t] /\ m.num = n
      /\ m.keys = mem[p][t].keys \cup {n}
  <2>1. n \in Nat
    BY <1>2 DEF Copy
  <2>2. mem[p][t].keys \cup {n} \in SUBSET Nat
    BY <1>2, <2>1 DEF Copy
  <2> HIDE DEF n
  <2>3. /\ m \in Copy /\ m.seq = mem[p][t].seq /\ m.num = n
        /\ m.keys = mem[p][t].keys \cup {n}
    BY <1>2, <2>1, <2>2 DEF Copy
  <2> QED BY <1>2, <2>1, <2>3
<1>4. mem' = [mem EXCEPT ![p][t] = m]
  BY <1>1, <1>2
<1>5. g \in Copy /\ g.seq = issued[t]
  BY <1>2, <1>3 DEF Copy
<1>6. f \in Copy /\ f.seq = issued[t]
  BY <1>2, <1>5
<1>7. file' = [file EXCEPT ![t] = f]
  <2>1. CASE n % TABLE_FLUSH # 0
    BY <1>1, <1>2, <2>1
  <2>2. CASE ~(n % TABLE_FLUSH # 0)
    BY <1>1, <1>2, <2>2
  <2> QED BY <2>1, <2>2
<1>8. issued' = [issued EXCEPT ![t] = issued[t]]
  BY <1>1, <1>2
<1>9. t \notin damaged => m.keys = 1 .. m.num
  <2>1. mem[p][t].num \in Nat
    BY <1>2 DEF Copy
  <2>2. 1 .. n = (1 .. mem[p][t].num) \cup {n}
    BY <2>1
  <2> QED BY <1>2, <1>3, <2>2
<1>10. SInv /\ job[p].at = "none" /\ use[p][t] # "free" /\ t \notin raced
  BY <1>1
<1>11. UNCHANGED <<job, use, raced, damaged>> /\ issued[t] \in Nat
  BY <1>1, <1>2
<1>12. m \in Copy /\ m.seq = issued[t]
  BY <1>3
<1> HIDE DEF m, f, n
<1> QED BY <1>4, <1>6, <1>7, <1>8, <1>9, <1>10, <1>11, <1>12, EditKept

(* The start of a process and the removal of a .LCK file.                  *)
LEMMA OutsideKept ==
  ASSUME SInv, UNCHANGED <<job, use, file, mem, issued, raced, damaged>>
  PROVE  Kept'
<1>1. \A q \in Proc, t \in Tables :
        /\ In(q, t)' <=> In(q, t)
        /\ HasCopy(q, t)' <=> HasCopy(q, t)
        /\ Rekeyed(q, t)' <=> Rekeyed(q, t)
        /\ Stored(q, t)' <=> Stored(q, t)
        /\ Failing(q, t)' <=> Failing(q, t)
  BY DEF In, InGap, HasCopy, Rekeyed, Stored, Failing, Cur
<1>2. DataTyped' /\ Absent'
  BY <1>1 DEF SInv, Kept, DataTyped, Absent
<1>3. ASSUME NEW t \in Tables \ raced' PROVE Faithful(t)'
  <2>1. Faithful(t)
    BY DEF SInv, Kept
  <2> QED BY <1>1, <2>1 DEF Faithful
<1> QED BY <1>2, <1>3 DEF Kept

-----------------------------------------------------------------------------
(* At first every table is empty.                                          *)
LEMMA InitKept == Init => Kept
<1> SUFFICES ASSUME Init PROVE Kept
  OBVIOUS
<1>1. /\ DataTyped
      /\ \A t \in Tables : file[t] = Empty /\ issued[t] = 0
      /\ \A p \in Proc, t \in Tables : mem[p][t] = Empty
  BY EmptyIsCopy DEF Init, DataTyped
<1>2. \A p \in Proc : job[p] = Idle
  BY DEF Init
<1>3. \A p \in Proc, t \in Tables : ~Stored(p, t) /\ ~Failing(p, t)
  BY <1>2 DEF Stored, Failing, Idle
<1>4. Empty.num = 0 /\ Empty.seq = 0 /\ Empty.keys = 1 .. Empty.num
  BY EmptyIsCopy
<1>5. Absent /\ \A t \in Tables : Faithful(t)
  BY <1>1, <1>3, <1>4 DEF Absent, Faithful
<1> QED BY <1>1, <1>5 DEF Kept

(* Every step keeps the data of tables that are not shared.                *)
LEMMA StepKept ==
  ASSUME SInv, [Next]_vars
  PROVE  Kept'
<1>1. CASE UNCHANGED vars
  BY <1>1, OutsideKept DEF vars
<1>2. CASE \E t \in Tables : RemoveLock(t)
  BY <1>2, OutsideKept DEF RemoveLock
<1>3. ASSUME NEW p \in Proc, Call(p) \/ Step(p) \/ Kill(p) \/ Start(p)
      PROVE  Kept'
  <2>1. CASE Start(p)
    BY <2>1, OutsideKept DEF Start
  <2>2. CASE Kill(p) \/ Exit(p) \/ End(p)
    BY <2>2, GoneKept DEF Kill, Exit, End
  <2>3. CASE \E t \in Tables : dbseq(p, t) \/ addRecord(p, t)
    BY <2>3, dbseqKept, addRecordKept
  <2>4. CASE \/ \E t \in Tables : dbopen(p, t) \/ dbclose(p, t) \/ dbreindex(p, t)
                                    \/ buildTable(p, t)
             \/ wsOpen(p) \/ wsClose(p) \/ dbexit(p)
    BY <2>4, BeginsKept
  <2>5. CASE Step(p) /\ ~End(p)
    BY <2>5, TestKept, ReadKept, LockKept, RekeyKept, StoreKept, UnlockKept,
       IndexesKept, ScrapKept, MakeKept DEF Step
  <2> QED BY <1>3, <2>1, <2>2, <2>3, <2>4, <2>5 DEF Call, Step
<1> QED BY <1>1, <1>2, <1>3 DEF Next

(* SInv is inductive.                                                      *)
LEMMA SInvInductive == SInv /\ [Next]_vars => SInv'
<1> SUFFICES ASSUME SInv, [Next]_vars PROVE SInv'
  OBVIOUS
<1>1. Local' /\ Shared'
  BY StepShared DEF SInv
<1> QED BY <1>1, StepKept DEF SInv

(* The number dbseq gives out is stored before the next one is drawn, by   *)
(* whichever process (incrementTableSequence, storeTableHeader).           *)
THEOREM SessionSequence == Spec => []SequenceExact
<1>1. SInv => SequenceExact
  BY DEF SInv, Kept, Faithful, SequenceExact
<1>2. Init => SInv
  BY InitShared, InitKept DEF SInv
<1> QED BY <1>1, <1>2, SInvInductive, PTL DEF Spec

(* Whenever nobody has a table that was closed or repaired by reindexTable *)
(* after the last death, its indexes list the records of its header        *)
(* (closeTable stores both).                                               *)
THEOREM SessionIndexes == Spec => []IndexesComplete
<1>1. SInv => IndexesComplete
  BY DEF SInv, Kept, Faithful, IndexesComplete, In
<1>2. Init => SInv
  BY InitShared, InitKept DEF SInv
<1> QED BY <1>1, <1>2, SInvInductive, PTL DEF Spec
-----------------------------------------------------------------------------
(* The types, with the bounds of each table: the copies and the files stay *)
(* within them.                                                            *)
Fits ==
  /\ \A t \in Tables : file[t] \in CopyOf(t) /\ issued[t] \in 0..MaxSequence[t]
  /\ \A p \in Proc, t \in Tables : mem[p][t] \in CopyOf(t)

Rest ==
  /\ lck \subseteq Tables /\ raced \subseteq Tables /\ damaged \subseteq Tables
  /\ status \in [Proc -> {"running", "ended", "killed"}]
  /\ exited \in [Proc -> BOOLEAN]

TInv == SInv /\ Fits /\ Rest

LEMMA TypesOfParts == TInv => TypeOK
BY DEF TInv, SInv, Local, Typed, Fits, Rest, TypeOK

(* A new table is within any bounds.                                       *)
LEMMA EmptyFits == \A t \in Tables : Empty \in CopyOf(t)
<1> SUFFICES ASSUME NEW t \in Tables PROVE Empty \in CopyOf(t)
  OBVIOUS
<1>1. MaxRecords[t] \in Nat /\ MaxSequence[t] \in Nat
  BY SessionAssumption
<1>2. 0 \in 0..MaxRecords[t] /\ 0 \in 0..MaxSequence[t]
  BY <1>1
<1> QED BY <1>2 DEF Empty, CopyOf

(* The data of one table change, in the copy of one process or in the      *)
(* files.                                                                  *)
LEMMA FitsOfOne ==
  ASSUME TInv, NEW p \in Proc, NEW c \in Tables,
         NEW f \in CopyOf(c), file' = [file EXCEPT ![c] = f] \/ file' = file,
         NEW m \in CopyOf(c), mem' = [mem EXCEPT ![p][c] = m] \/ mem' = mem,
         NEW n \in 0..MaxSequence[c], issued' = [issued EXCEPT ![c] = n] \/ issued' = issued
  PROVE  Fits'
<1>1. /\ file \in [Tables -> Copy] /\ mem \in [Proc -> [Tables -> Copy]]
      /\ issued \in [Tables -> Nat]
  BY DEF TInv, SInv, Kept, DataTyped
<1>2. \A t \in Tables : file'[t] \in CopyOf(t)
  BY <1>1 DEF TInv, Fits
<1>3. \A t \in Tables : issued'[t] \in 0..MaxSequence[t]
  BY <1>1 DEF TInv, Fits
<1>4. \A q \in Proc, t \in Tables : mem'[q][t] \in CopyOf(t)
  BY <1>1 DEF TInv, Fits
<1> QED BY <1>2, <1>3, <1>4 DEF Fits

(* What is known of a table that becomes shared is forgotten.              *)
LEMMA RaceFits ==
  ASSUME TInv, NEW c \in Tables, Race(c)
  PROVE  /\ \A t \in Tables : file'[t] = file[t] \/ file'[t] = Empty
         /\ \A q \in Proc, t \in Tables : mem'[q][t] = mem[q][t] \/ mem'[q][t] = Empty
<1>1. /\ \A t \in Tables \ {c} : file'[t] = file[t]
      /\ \A t \in Tables \ {c} : \A q \in Proc : mem'[q][t] = mem[q][t]
      /\ \A q \in Proc : mem'[q][c] = Empty
  BY RaceKept DEF TInv, SInv, Kept
<1>2. file'[c] = Empty
  BY DEF Race, TInv, SInv, Kept, DataTyped
<1> QED BY <1>1, <1>2

(* Nothing changes, or what is known of a table that becomes shared.       *)
LEMMA FitsOfRace ==
  ASSUME TInv, NEW c \in Tables, issued' = issued,
         Race(c) \/ UNCHANGED <<file, mem>>
  PROVE  Fits'
<1>1. CASE UNCHANGED <<file, mem>>
  BY <1>1 DEF TInv, Fits
<1>2. CASE Race(c)
  <2>1. /\ \A t \in Tables : file'[t] = file[t] \/ file'[t] = Empty
        /\ \A q \in Proc, t \in Tables : mem'[q][t] = mem[q][t] \/ mem'[q][t] = Empty
    BY <1>2, RaceFits
  <2> QED BY <2>1, EmptyFits DEF TInv, Fits
<1> QED BY <1>1, <1>2

(* A process that goes leaves nothing of its copies.                       *)
LEMMA GoneFits ==
  ASSUME TInv, NEW p \in Proc, NEW how, Gone(p, how)
  PROVE  Fits'
<1>1. /\ file' = file /\ issued' = issued
      /\ mem' = [mem EXCEPT ![p] = [t \in Tables |-> Empty]]
  BY DEF Gone
<1>2. mem \in [Proc -> [Tables -> Copy]]
  BY DEF TInv, SInv, Kept, DataTyped
<1>3. \A q \in Proc, t \in Tables : mem'[q][t] = mem[q][t] \/ mem'[q][t] = Empty
  BY <1>1, <1>2
<1> QED BY <1>1, <1>3, EmptyFits DEF TInv, Fits

(* A record with some of its fields from another one.                      *)
LEMMA MixedFits ==
  ASSUME NEW t \in Tables, NEW x \in CopyOf(t), NEW y \in CopyOf(t)
  PROVE  /\ [x EXCEPT !.num = y.num, !.seq = y.seq] \in CopyOf(t)
         /\ [x EXCEPT !.keys = y.keys] \in CopyOf(t)
         /\ [x EXCEPT !.keys = 1 .. x.num] \in CopyOf(t)
<1>1. MaxRecords[t] \in Nat
  BY SessionAssumption
<1>2. x.num \in 0..MaxRecords[t]
  BY DEF CopyOf
<1>3. 1 .. x.num \in SUBSET (1 .. MaxRecords[t])
  BY <1>1, <1>2
<1> QED BY <1>3 DEF CopyOf

(* The steps of a call that read or write one table.                       *)
LEMMA StepFits ==
  ASSUME TInv, NEW p \in Proc, Read(p) \/ Rekey(p) \/ Store(p) \/ Indexes(p)
  PROVE  Fits'
<1>1. Local /\ job[p].at # "none"
  BY DEF TInv, SInv, Read, Rekey, Store, Indexes, At
<1>2. PICK c \in Tables : c = Cur(p)
  BY <1>1, CurIsTable
<1>3. /\ file[c] \in CopyOf(c) /\ mem[p][c] \in CopyOf(c) /\ issued[c] \in 0..MaxSequence[c]
      /\ file \in [Tables -> Copy] /\ mem \in [Proc -> [Tables -> Copy]]
  BY DEF TInv, SInv, Kept, DataTyped, Fits
<1>4. CASE Read(p)
  <2>1. mem' = [mem EXCEPT ![p][c] = file[c]] /\ file' = file /\ issued' = issued
    BY <1>2, <1>4 DEF Read
  <2> QED BY <1>3, <2>1, FitsOfOne
<1>5. CASE Rekey(p)
  <2> DEFINE m == [mem[p][c] EXCEPT !.keys = 1 .. mem[p][c].num]
  <2>1. m \in CopyOf(c)
    BY <1>3, MixedFits
  <2>2. /\ mem' = [mem EXCEPT ![p][c].keys = 1 .. mem[p][c].num]
        /\ file' = file /\ issued' = issued
    BY <1>2, <1>5 DEF Rekey
  <2>3. mem' = [mem EXCEPT ![p][c] = m]
    BY <1>3, <2>2
  <2> HIDE DEF m
  <2> QED BY <1>3, <2>1, <2>2, <2>3, FitsOfOne
<1>6. CASE Store(p)
  <2> DEFINE f == [file[c] EXCEPT !.num = mem[p][c].num, !.seq = mem[p][c].seq]
  <2>1. f \in CopyOf(c)
    BY <1>3, MixedFits
  <2>2. /\ file' = [file EXCEPT ![c].num = mem[p][c].num, ![c].seq = mem[p][c].seq]
        /\ mem' = mem /\ issued' = issued
    BY <1>2, <1>6 DEF Store
  <2>3. file' = [file EXCEPT ![c] = f]
    BY <1>3, <2>2
  <2> HIDE DEF f
  <2> QED BY <1>3, <2>1, <2>2, <2>3, FitsOfOne
<1>7. CASE Indexes(p)
  <2> DEFINE f == [file[c] EXCEPT !.keys = mem[p][c].keys]
  <2>1. f \in CopyOf(c) /\ Empty \in CopyOf(c)
    BY <1>3, MixedFits, EmptyFits
  <2>2. /\ file' = [file EXCEPT ![c].keys = mem[p][c].keys]
        /\ mem' = [mem EXCEPT ![p][c] = Empty] /\ issued' = issued
    BY <1>2, <1>7 DEF Indexes
  <2>3. file' = [file EXCEPT ![c] = f]
    BY <1>3, <2>2
  <2> HIDE DEF f
  <2> QED BY <1>3, <2>1, <2>2, <2>3, FitsOfOne
<1> QED BY <1>4, <1>5, <1>6, <1>7

(* createTable: the numbers are drawn anew.                                *)
LEMMA MakeFits ==
  ASSUME TInv, NEW p \in Proc, Make(p)
  PROVE  Fits'
<1>1. Local /\ job[p].at # "none"
  BY DEF TInv, SInv, Make, At
<1>2. PICK c \in Tables : c = Cur(p)
  BY <1>1, CurIsTable
<1>3. CASE c \in lck
  BY <1>2, <1>3, GoneFits DEF Make
<1>4. CASE c \notin lck
  <2>1. /\ issued' = [issued EXCEPT ![c] = 0]
        /\ Race(c) \/ (file' = [file EXCEPT ![c] = Empty] /\ mem' = mem)
    BY <1>2, <1>4 DEF Make
  <2>2. 0 \in 0..MaxSequence[c] /\ Empty \in CopyOf(c) /\ mem[p][c] \in CopyOf(c)
    <3>1. MaxSequence[c] \in Nat
      BY SessionAssumption
    <3> QED BY <3>1, EmptyFits DEF TInv, Fits
  <2>3. CASE Race(c)
    <3>1. /\ \A t \in Tables : issued'[t] \in 0..MaxSequence[t]
      BY <2>1, <2>2 DEF TInv, SInv, Kept, DataTyped, Fits
    <3>2. /\ \A t \in Tables : file'[t] = file[t] \/ file'[t] = Empty
          /\ \A q \in Proc, t \in Tables : mem'[q][t] = mem[q][t] \/ mem'[q][t] = Empty
      BY <2>3, RaceFits
    <3> QED BY <3>1, <3>2, EmptyFits DEF TInv, Fits
  <2>4. CASE file' = [file EXCEPT ![c] = Empty] /\ mem' = mem
    BY <2>1, <2>2, <2>4, FitsOfOne
  <2> QED BY <2>1, <2>3, <2>4
<1> QED BY <1>3, <1>4

(* dbseq draws a number: the one it stores is the last one drawn.          *)
LEMMA dbseqFits ==
  ASSUME TInv, NEW p \in Proc, NEW t \in Tables, dbseq(p, t)
  PROVE  Fits'
<1> DEFINE m == [mem[p][t] EXCEPT !.seq = @ + 1]
           f == [file[t] EXCEPT !.num = m.num, !.seq = m.seq]
<1>1. /\ job[p].at = "none" /\ use[p][t] # "free" /\ t \notin raced
      /\ issued[t] < MaxSequence[t]
      /\ mem' = [mem EXCEPT ![p][t].seq = @ + 1]
      /\ file' = [file EXCEPT ![t].num = mem'[p][t].num, ![t].seq = mem'[p][t].seq]
      /\ issued' = [issued EXCEPT ![t] = @ + 1]
  BY DEF dbseq, MayEdit, Ready, At
<1>2. /\ mem \in [Proc -> [Tables -> Copy]] /\ file \in [Tables -> Copy]
      /\ mem[p][t].seq = issued[t] /\ issued \in [Tables -> Nat]
  BY <1>1, EditCopy DEF TInv
<1>3. mem[p][t] \in CopyOf(t) /\ file[t] \in CopyOf(t) /\ MaxSequence[t] \in Nat
  BY SessionAssumption DEF TInv, Fits
<1>4. issued[t] + 1 \in 0..MaxSequence[t]
  BY <1>1, <1>2, <1>3
<1>5. mem[p][t].seq + 1 \in 0..MaxSequence[t]
  BY <1>2, <1>4
<1>6. m \in CopyOf(t)
  BY <1>3, <1>5 DEF CopyOf
<1>7. mem' = [mem EXCEPT ![p][t] = m] /\ mem'[p][t] = m
  BY <1>1, <1>2
<1> HIDE DEF m
<1>8. f \in CopyOf(t)
  BY <1>3, <1>6, MixedFits
<1>9. file' = [file EXCEPT ![t] = f]
  BY <1>1, <1>2, <1>7
<1> HIDE DEF f
<1> DEFINE n == issued[t] + 1
<1>10. issued' = [issued EXCEPT ![t] = n] /\ n \in 0..MaxSequence[t]
  BY <1>1, <1>4
<1> HIDE DEF n
<1> QED BY <1>6, <1>7, <1>8, <1>9, <1>10, FitsOfOne

(* addRecord adds one record and its key.                                  *)
LEMMA addRecordFits ==
  ASSUME TInv, NEW p \in Proc, NEW t \in Tables, addRecord(p, t)
  PROVE  Fits'
<1> DEFINE n == mem[p][t].num + 1
           m == [mem[p][t] EXCEPT !.num = n, !.keys = @ \cup {n}]
           f == [file[t] EXCEPT !.num = n, !.seq = mem[p][t].seq]
<1>1. /\ n <= MaxRecords[t] /\ issued' = issued
      /\ mem' = [mem EXCEPT ![p][t].num = n, ![p][t].keys = @ \cup {n}]
      /\ \/ file' = [file EXCEPT ![t].num = n, ![t].seq = mem[p][t].seq]
         \/ file' = file
  BY DEF addRecord
<1>2. mem \in [Proc -> [Tables -> Copy]] /\ file \in [Tables -> Copy]
  BY DEF TInv, SInv, Kept, DataTyped
<1>3. /\ mem[p][t] \in CopyOf(t) /\ file[t] \in CopyOf(t)
      /\ MaxRecords[t] \in Nat /\ issued[t] \in 0..MaxSequence[t]
  BY SessionAssumption DEF TInv, Fits
<1>4. mem[p][t].num \in 0..MaxRecords[t] /\ mem[p][t].seq \in 0..MaxSequence[t]
      /\ mem[p][t].keys \subseteq 1..MaxRecords[t]
  BY <1>3 DEF CopyOf
<1>5. n \in 0..MaxRecords[t] /\ n \in 1..MaxRecords[t]
  BY <1>1, <1>3, <1>4
<1> HIDE DEF n
<1>6. mem[p][t].keys \cup {n} \in SUBSET (1..MaxRecords[t])
  BY <1>4, <1>5
<1>7. m \in CopyOf(t) /\ f \in CopyOf(t)
  BY <1>3, <1>4, <1>5, <1>6 DEF CopyOf
<1>8. mem' = [mem EXCEPT ![p][t] = m]
  BY <1>1, <1>2
<1>9. file' = [file EXCEPT ![t] = f] \/ file' = file
  BY <1>1, <1>2
<1> HIDE DEF m, f
<1> QED BY <1>1, <1>3, <1>7, <1>8, <1>9, FitsOfOne

(* Every step stays within the bounds.                                     *)
LEMMA NextFits ==
  ASSUME TInv, [Next]_vars
  PROVE  Fits'
<1>1. ASSUME UNCHANGED <<file, mem, issued>> PROVE Fits'
  BY <1>1 DEF TInv, Fits, CopyOf
<1>2. CASE UNCHANGED vars
  BY <1>1, <1>2 DEF vars
<1>3. CASE \E t \in Tables : RemoveLock(t)
  BY <1>1, <1>3 DEF RemoveLock
<1>4. ASSUME NEW p \in Proc, Call(p) \/ Step(p) \/ Kill(p) \/ Start(p) PROVE Fits'
  <2>1. CASE Start(p) \/ Lock(p) \/ Unlock(p)
    BY <1>1, <2>1 DEF Start, Lock, Unlock
  <2>2. CASE Kill(p) \/ Exit(p) \/ End(p)
    BY <2>2, GoneFits DEF Kill, Exit, End
  <2>3. CASE \E t \in Tables : dbseq(p, t) \/ addRecord(p, t)
    BY <2>3, dbseqFits, addRecordFits
  <2>4. CASE \/ \E t \in Tables : dbopen(p, t) \/ dbclose(p, t) \/ dbreindex(p, t)
                                    \/ buildTable(p, t)
             \/ wsOpen(p) \/ wsClose(p) \/ dbexit(p)
    BY <1>1, <2>4, BeginsOK DEF TInv, SInv
  <2>5. CASE Test(p) \/ Scrap(p)
    <3>1. Local /\ job[p].at # "none"
      BY <2>5 DEF TInv, SInv, Test, Scrap, At
    <3>2. Cur(p) \in Tables
      BY <3>1, CurIsTable
    <3>3. issued' = issued /\ (Race(Cur(p)) \/ UNCHANGED <<file, mem>>)
      BY <2>5 DEF Test, Scrap
    <3> QED BY <3>2, <3>3, FitsOfRace
  <2>6. CASE Read(p) \/ Rekey(p) \/ Store(p) \/ Indexes(p) \/ Make(p)
    BY <2>6, StepFits, MakeFits
  <2> QED BY <1>4, <2>1, <2>2, <2>3, <2>4, <2>5, <2>6 DEF Call, Step
<1> QED BY <1>2, <1>3, <1>4 DEF Next

(* The sets of tables, and the processes.                                  *)
LEMMA CallRest ==
  ASSUME TInv, NEW p \in Proc, Call(p) \/ Step(p) \/ Kill(p) \/ Start(p)
  PROVE  Rest'
<1>1. Rest /\ Local
  BY DEF TInv, SInv
<1>2. ASSUME NEW how \in {"ended", "killed"}, Gone(p, how) PROVE Rest'
  BY <1>1, <1>2 DEF Rest, Gone
<1>3. CASE Kill(p) \/ Exit(p) \/ End(p)
  BY <1>2, <1>3 DEF Kill, Exit, End
<1>4. CASE Start(p)
  BY <1>1, <1>4 DEF Rest, Start
<1>5. CASE \E t \in Tables : dbseq(p, t) \/ addRecord(p, t)
  BY <1>1, <1>5 DEF Rest, dbseq, addRecord
<1>6. CASE \/ \E t \in Tables : dbopen(p, t) \/ dbclose(p, t) \/ dbreindex(p, t)
                                  \/ buildTable(p, t)
           \/ wsOpen(p) \/ wsClose(p) \/ dbexit(p)
  BY <1>1, <1>6 DEF Rest, dbopen, dbclose, dbreindex, buildTable, wsOpen, wsClose, dbexit,
     Begin
<1>7. CASE Step(p) /\ ~End(p)
  <2>1. job[p].at # "none"
    BY <1>7 DEF Step, Test, Read, Lock, Rekey, Store, Unlock, Indexes, Scrap, Make, At
  <2>2. PICK c \in Tables : c = Cur(p)
    BY <1>1, <2>1, CurIsTable
  <2>3. CASE Make(p) /\ c \in lck
    BY <1>2, <2>2, <2>3 DEF Make
  <2>4. CASE Step(p) /\ ~End(p) /\ ~(Make(p) /\ c \in lck)
    <3>1. /\ lck' \subseteq lck \cup {c}
          /\ raced' \subseteq raced \cup {c}
          /\ damaged' \subseteq damaged
          /\ status' = status
      BY <2>2, <2>4 DEF Step, Test, Read, Lock, Rekey, Store, Unlock, Indexes, Scrap, Make,
         Race
    <3>2. exited' \in [Proc -> BOOLEAN]
      <4>1. \/ exited' = exited
            \/ exited' = [exited EXCEPT
                 ![p] = @ \/ (job[p].call = "dbexit" /\ Len(job[p].todo) = 1)]
        BY <2>2, <2>4 DEF Step, Test, Read, Lock, Rekey, Store, Unlock, Indexes, Scrap, Make
      <4> QED BY <1>1, <4>1 DEF Rest
    <3> QED BY <1>1, <3>1, <3>2 DEF Rest
  <2> QED BY <1>7, <2>3, <2>4
<1> QED BY <1>3, <1>4, <1>5, <1>6, <1>7 DEF Call, Step

(* TInv is inductive.                                                      *)
LEMMA TInvInductive == TInv /\ [Next]_vars => TInv'
<1> SUFFICES ASSUME TInv, [Next]_vars PROVE TInv'
  OBVIOUS
<1>1. SInv' /\ Fits'
  BY SInvInductive, NextFits DEF TInv
<1>2. Rest'
  <2>1. CASE UNCHANGED vars
    BY <2>1 DEF TInv, Rest, vars
  <2>2. CASE \E t \in Tables : RemoveLock(t)
    BY <2>2 DEF TInv, Rest, RemoveLock
  <2> QED BY <2>1, <2>2, CallRest DEF Next
<1> QED BY <1>1, <1>2 DEF TInv

(* Every variable keeps its type, and every table its bounds: no process,  *)
(* in whatever order they work, counts past them or lists a record the     *)
(* table has no room for.                                                  *)
THEOREM SessionTypes == Spec => []TypeOK
<1>1. Init => TInv
  <2> SUFFICES ASSUME Init PROVE TInv
    OBVIOUS
  <2>1. SInv
    BY InitShared, InitKept DEF SInv
  <2>2. Fits
    <3>1. \A t \in Tables : 0 \in 0..MaxSequence[t]
      <4> SUFFICES ASSUME NEW t \in Tables PROVE 0 \in 0..MaxSequence[t]
        OBVIOUS
      <4>1. MaxSequence[t] \in Nat
        BY SessionAssumption
      <4> QED BY <4>1
    <3> QED BY <3>1, EmptyFits DEF Init, Fits
  <2>3. Rest
    BY DEF Init, Rest
  <2> QED BY <2>1, <2>2, <2>3 DEF TInv
<1> QED BY <1>1, TInvInductive, TypesOfParts, PTL DEF Spec
=============================================================================
