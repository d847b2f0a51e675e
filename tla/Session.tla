------------------------------ MODULE Session ------------------------------
(***************************************************************************)
(* Processes that share tables.  All that keeps two of them from one table *)
(* is its .LCK file, which openTable and createTable look for and then     *)
(* create, and closeTable removes (cdbtable.c; the calls of                *)
(* fileLockRegion are compiled out).  The calls that open and close are    *)
(* those of cdb.c (dbopen, dbclose, dbexit, dbreindex), of cdbws.c (wsOpen *)
(* and wsClose) and buildTable of cdbui.c; between two of their steps any  *)
(* other process may go on, and a process may be killed anywhere.          *)
(*                                                                         *)
(* Of a table there is numRecords and nextSequence of the header, and the  *)
(* records its indexes list; of what addRecord and the indexes do in one   *)
(* process, see Table and Index.  What is in a table that two processes    *)
(* have been let into is not followed: it stays Empty.                     *)
(***************************************************************************)
EXTENDS Integers, Sequences, SequencesExt

CONSTANTS
  Proc,         (* processes                                               *)
  Tables,       (* tables, all of which exist                              *)
  Workspace,    (* the tables of a workspace file, in its order            *)
  Calls,        (* the calls each process makes                            *)
  TABLE_FLUSH,  (* addRecord looks at numRecords % TABLE_FLUSH             *)
  MaxRecords,   (* bound on the records of each table                      *)
  MaxSequence   (* bound on the sequence numbers drawn from each table     *)

(* A workspace is a unique shell: it has a table once.                     *)
ASSUME SessionAssumption ==
  /\ IsFiniteSet(Tables)
  /\ Workspace \in Seq(Tables) /\ Workspace # <<>> /\ IsInjective(Workspace)
  /\ TABLE_FLUSH \in Nat \ {0}
  /\ \A t \in Tables : MaxRecords[t] \in Nat /\ MaxSequence[t] \in Nat

VARIABLES
  lck,      (* the tables with a .LCK file                                 *)
  file,     (* [num, seq, keys] of each table, in its files                *)
  status,   (* of each process: "running", "ended" or "killed"             *)
  job,      (* the call it is in: see Job                                  *)
  use,      (* how it has each table: "free", by a "handle" of cdb.c, in   *)
            (* its "workspace", or open but "lost"                         *)
  mem,      (* its copy of [num, seq, keys] of each table                  *)
  exited,   (* it has called dbexit: handles[0] is 0, num_handles is not   *)
  (* What the history knows of the tables.                                 *)
  raced,    (* two processes were let in through one of the gaps           *)
  damaged,  (* a process died with it, and it was not reindexed since      *)
  issued    (* the sequence numbers drawn from it                          *)

vars == <<lck, file, status, job, use, mem, exited, raced, damaged, issued>>

Empty == [num |-> 0, seq |-> 0, keys |-> {}]

(* The call, the step it is at, the tables still to do, and whether it is  *)
(* about to fail.                                                          *)
Idle == [call |-> "none", at |-> "none", todo |-> <<>>, bad |-> FALSE]
Jobs ==
  [call : {"none", "open", "close", "reindex", "build", "wsOpen", "wsClose",
           "dbexit", "exit"},
   at : {"none", "test", "read", "lock", "keys", "store", "unlock", "indexes",
         "end", "scrap", "make"},
   todo : Seq(Tables), bad : BOOLEAN]
Uses == {"free", "handle", "workspace", "lost"}

Job(call, at, todo) == [call |-> call, at |-> at, todo |-> todo, bad |-> FALSE]

At(p, step) == status[p] = "running" /\ job[p].at = step
Ready(p)    == At(p, "none")
Cur(p)      == Head(job[p].todo)

(* The process has passed the test for the .LCK file of t and not created  *)
(* it, or it has removed it, and it works with the files.                  *)
InGap(p, t) ==
  /\ job[p].at # "none" /\ Cur(p) = t
  /\ job[p].at \in {"read", "lock", "indexes"} \/ job[p].bad

In(p, t)     == use[p][t] # "free" \/ InGap(p, t)
Others(p, t) == {q \in Proc \ {p} : In(q, t)}

(* Two processes are in t from now on.                                     *)
Race(t) ==
  /\ raced' = raced \cup {t}
  /\ file' = [file EXCEPT ![t] = Empty]
  /\ mem' = [p \in Proc |-> [mem[p] EXCEPT ![t] = Empty]]

-----------------------------------------------------------------------------
Goto(p, at) == job' = [job EXCEPT ![p].at = at]

(* Mutant: only the first table is closed.                                 *)
FollowingNone(j, at) == Idle

(* The next table of the call, or its end.                                 *)
Following(j, at) ==
  IF Len(j.todo) = 1 THEN Idle ELSE [j EXCEPT !.todo = Tail(@), !.at = at]

Handles(p) == {t \in Tables : use[p][t] = "handle"}

(* dbexit empties handles but leaves num_handles: no later handle is found *)
(* again.                                                                  *)
UseFor(p) ==
  IF job[p].call = "wsOpen" THEN "workspace"
  ELSE IF exited[p] THEN "lost" ELSE "handle"

(* A call that cannot open a table returns.  wsOpen leaves those it has    *)
(* opened open, without a descriptor to close them by.                     *)
GiveUp(p) ==
  /\ job' = [job EXCEPT ![p] = Idle]
  /\ use' = [use EXCEPT ![p] = [t \in Tables |->
       IF job[p].call = "wsOpen" /\ use[p][t] = "workspace" THEN "lost" ELSE use[p][t]]]

(* A process is gone; its tables are as it left them.                      *)
Gone(p, how) ==
  /\ status' = [status EXCEPT ![p] = how]
  /\ job' = [job EXCEPT ![p] = Idle]
  /\ damaged' = damaged \cup {t \in Tables : use[p][t] # "free"}
  /\ use' = [use EXCEPT ![p] = [t \in Tables |-> "free"]]
  /\ mem' = [mem EXCEPT ![p] = [t \in Tables |-> Empty]]
  /\ UNCHANGED <<lck, file, exited, raced, issued>>

-----------------------------------------------------------------------------
Init ==
  /\ lck = {}
  /\ file = [t \in Tables |-> Empty]
  /\ status = [p \in Proc |-> "running"]
  /\ job = [p \in Proc |-> Idle]
  /\ use = [p \in Proc |-> [t \in Tables |-> "free"]]
  /\ mem = [p \in Proc |-> [t \in Tables |-> Empty]]
  /\ exited = [p \in Proc |-> FALSE]
  /\ raced = {} /\ damaged = {}
  /\ issued = [t \in Tables |-> 0]

(* A call begins.                                                          *)
Begin(p, call, at, todo) ==
  /\ Ready(p) /\ call \in Calls[p] /\ todo # <<>>
  /\ job' = [job EXCEPT ![p] = Job(call, at, todo)]
  /\ UNCHANGED <<lck, file, status, use, mem, exited, raced, damaged, issued>>

dbopen(p, t)    == use[p][t] = "free" /\ Begin(p, "open", "test", <<t>>)
dbclose(p, t)   == use[p][t] = "handle" /\ Begin(p, "close", "store", <<t>>)
dbreindex(p, t) == use[p][t] = "free" /\ Begin(p, "reindex", "test", <<t>>)

buildTable(p, t) == use[p][t] = "free" /\ Begin(p, "build", "scrap", <<t>>)

wsOpen(p) ==
  /\ \A t \in Range(Workspace) : use[p][t] = "free"
  /\ Begin(p, "wsOpen", "test", Workspace)

wsClose(p) ==
  /\ \A t \in Range(Workspace) : use[p][t] = "workspace"
  /\ Begin(p, "wsClose", "store", Workspace)

(* dbexit, by the program itself or, when it ends, by my_atexit.           *)
dbexit(p) ==
  \E call \in {"dbexit", "exit"}, todo \in SetToSeqs(Handles(p)) :
    Begin(p, call, "store", todo)

(* The end of a program for which dbexit finds no handle.                  *)
Exit(p) == Ready(p) /\ Handles(p) = {} /\ Gone(p, "ended")

-----------------------------------------------------------------------------
(* openTable and openTableNoIndexes look for the .LCK file.                *)
Test(p) ==
  /\ At(p, "test")
  /\ IF Cur(p) \in lck THEN GiveUp(p) /\ UNCHANGED <<file, mem, raced>>
     ELSE /\ Goto(p, "read")
          /\ UNCHANGED use
          /\ IF \E q \in Proc \ {p} : InGap(q, Cur(p)) THEN Race(Cur(p))
             ELSE UNCHANGED <<file, mem, raced>>
  /\ UNCHANGED <<lck, status, exited, damaged, issued>>

(* The header is read, and by openTable the indexes.  Indexes somebody     *)
(* died with may not open: openTable then calls closeTable.                *)
Read(p) ==
  /\ At(p, "read")
  /\ mem' = [mem EXCEPT ![p][Cur(p)] = file[Cur(p)]]
  /\ \/ Goto(p, "lock")
     \/ /\ Cur(p) \in damaged \cup raced /\ job[p].call # "reindex"
        /\ job' = [job EXCEPT ![p].at = "store", ![p].bad = TRUE]
  /\ UNCHANGED <<lck, file, status, use, exited, raced, damaged, issued>>

(* Mutant: openTableNoIndexes creates no .LCK file.                        *)
LockUnlessReindex(p) ==
  /\ At(p, "lock")
  /\ lck' = IF job[p].call = "reindex" THEN lck ELSE lck \cup {Cur(p)}
  /\ use' = [use EXCEPT ![p][Cur(p)] = UseFor(p)]
  /\ job' = [job EXCEPT ![p] =
               IF @.call = "reindex" THEN [@ EXCEPT !.at = "keys"]
               ELSE Following(@, "test")]
  /\ UNCHANGED <<file, status, mem, exited, raced, damaged, issued>>

(* The .LCK file is created, as the last thing.                            *)
Lock(p) ==
  /\ At(p, "lock")
  /\ lck' = lck \cup {Cur(p)}
  /\ use' = [use EXCEPT ![p][Cur(p)] = UseFor(p)]
  /\ job' = [job EXCEPT ![p] =
               IF @.call = "reindex" THEN [@ EXCEPT !.at = "keys"]
               ELSE Following(@, "test")]
  /\ UNCHANGED <<file, status, mem, exited, raced, damaged, issued>>

(* Mutant: the last record is left out.                                    *)
RekeyShort(p) ==
  /\ At(p, "keys")
  /\ mem' = [mem EXCEPT ![p][Cur(p)].keys = 1 .. mem[p][Cur(p)].num - 1]
  /\ Goto(p, "store")
  /\ UNCHANGED <<lck, file, status, use, exited, raced, damaged, issued>>

(* The rest of reindexTable, up to its closeTable.                         *)
Rekey(p) ==
  /\ At(p, "keys")
  /\ mem' = [mem EXCEPT ![p][Cur(p)].keys = 1 .. mem[p][Cur(p)].num]
  /\ Goto(p, "store")
  /\ UNCHANGED <<lck, file, status, use, exited, raced, damaged, issued>>

(* closeTable: the header, the .LCK file, then the indexes.                *)
Store(p) ==
  /\ At(p, "store")
  /\ file' = [file EXCEPT ![Cur(p)].num = mem[p][Cur(p)].num,
                          ![Cur(p)].seq = mem[p][Cur(p)].seq]
  /\ Goto(p, "unlock")
  /\ UNCHANGED <<lck, status, use, mem, exited, raced, damaged, issued>>

Unlock(p) ==
  /\ At(p, "unlock")
  /\ lck' = lck \ {Cur(p)}
  /\ Goto(p, "indexes")
  /\ UNCHANGED <<file, status, use, mem, exited, raced, damaged, issued>>

Indexes(p) ==
  /\ At(p, "indexes")
  /\ file' = [file EXCEPT ![Cur(p)].keys = mem[p][Cur(p)].keys]
  /\ mem' = [mem EXCEPT ![p][Cur(p)] = Empty]
  /\ damaged' = IF job[p].call = "reindex" THEN damaged \ {Cur(p)} ELSE damaged
  /\ IF job[p].bad THEN GiveUp(p)
     ELSE /\ use' = [use EXCEPT ![p][Cur(p)] = "free"]
          /\ job' = [job EXCEPT ![p] = IF @.call = "exit" /\ Len(@.todo) = 1
                                         THEN [@ EXCEPT !.at = "end"]
                                         ELSE Following(@, "store")]
  /\ exited' = [exited EXCEPT ![p] = @ \/ (job[p].call = "dbexit" /\ Len(job[p].todo) = 1)]
  /\ UNCHANGED <<lck, status, raced, issued>>

(* The process ends after dbexit.                                          *)
End(p) == At(p, "end") /\ Gone(p, "ended")

(* buildTable removes a .LCK file: no process has a lock that              *)
(* fileLockTest could see.                                                 *)
Scrap(p) ==
  /\ At(p, "scrap")
  /\ lck' = lck \ {Cur(p)}
  /\ Goto(p, "make")
  /\ IF Cur(p) \in lck /\ Others(p, Cur(p)) # {} THEN Race(Cur(p))
     ELSE UNCHANGED <<file, mem, raced>>
  /\ UNCHANGED <<status, use, exited, damaged, issued>>

(* createTable: a new file takes the place of the old one.  If there is a  *)
(* .LCK file again it returns 0, through which buildTable dies.            *)
Make(p) ==
  /\ At(p, "make")
  /\ IF Cur(p) \in lck THEN Gone(p, "killed")
     ELSE /\ Goto(p, "lock")
          /\ IF Others(p, Cur(p)) # {} THEN Race(Cur(p))
             ELSE /\ raced' = raced \ {Cur(p)}
                  /\ file' = [file EXCEPT ![Cur(p)] = Empty]
                  /\ UNCHANGED mem
          /\ damaged' = damaged \ {Cur(p)}
          /\ issued' = [issued EXCEPT ![Cur(p)] = 0]
          /\ UNCHANGED <<lck, status, use, exited>>

-----------------------------------------------------------------------------
(* Edits, one call each; fileWrite leaves nothing in the process.          *)
MayEdit(p, t, how) == Ready(p) /\ use[p][t] \in how /\ t \notin raced

(* Mutant: the header is left to closeTable.                               *)
dbseqUnstored(p, t) ==
  /\ MayEdit(p, t, {"handle"}) /\ issued[t] < MaxSequence[t]
  /\ mem' = [mem EXCEPT ![p][t].seq = @ + 1]
  /\ issued' = [issued EXCEPT ![t] = @ + 1]
  /\ UNCHANGED <<lck, file, status, job, use, exited, raced, damaged>>

dbseq(p, t) ==
  /\ MayEdit(p, t, {"handle"}) /\ issued[t] < MaxSequence[t]
  /\ mem' = [mem EXCEPT ![p][t].seq = @ + 1]
  /\ file' = [file EXCEPT ![t].num = mem'[p][t].num, ![t].seq = mem'[p][t].seq]
  /\ issued' = [issued EXCEPT ![t] = @ + 1]
  /\ UNCHANGED <<lck, status, job, use, exited, raced, damaged>>

(* Mutant: the number of the record is counted from 0.                     *)
addFromZero(p, t) ==
  LET n == mem[p][t].num + 1
  IN /\ MayEdit(p, t, {"handle", "workspace"}) /\ n <= MaxRecords[t]
     /\ mem' = [mem EXCEPT ![p][t].num = n, ![p][t].keys = @ \cup {n - 1}]
     /\ file' = IF n % TABLE_FLUSH # 0
                  THEN [file EXCEPT ![t].num = n, ![t].seq = mem[p][t].seq]
                  ELSE file
     /\ UNCHANGED <<lck, status, job, use, exited, raced, damaged, issued>>

addRecord(p, t) ==
  LET n == mem[p][t].num + 1
  IN /\ MayEdit(p, t, {"handle", "workspace"}) /\ n <= MaxRecords[t]
     /\ mem' = [mem EXCEPT ![p][t].num = n, ![p][t].keys = @ \cup {n}]
     /\ file' = IF n % TABLE_FLUSH # 0
                  THEN [file EXCEPT ![t].num = n, ![t].seq = mem[p][t].seq]
                  ELSE file
     /\ UNCHANGED <<lck, status, job, use, exited, raced, damaged, issued>>

Kill(p) == status[p] = "running" /\ Gone(p, "killed")

Start(p) ==
  /\ status[p] # "running"
  /\ status' = [status EXCEPT ![p] = "running"]
  /\ exited' = [exited EXCEPT ![p] = FALSE]
  /\ UNCHANGED <<lck, file, job, use, mem, raced, damaged, issued>>

(* The .LCK file a dead process has left is removed by hand, or by the     *)
(* next program before it opens the table, as those in tests do.           *)
RemoveLock(t) ==
  /\ t \in lck /\ \A p \in Proc : ~In(p, t)
  /\ lck' = lck \ {t}
  /\ UNCHANGED <<file, status, job, use, mem, exited, raced, damaged, issued>>

-----------------------------------------------------------------------------
Call(p) ==
  \/ \E t \in Tables : dbopen(p, t) \/ dbclose(p, t) \/ dbreindex(p, t) \/ buildTable(p, t)
  \/ wsOpen(p) \/ wsClose(p) \/ dbexit(p) \/ Exit(p)
  \/ \E t \in Tables : dbseq(p, t) \/ addRecord(p, t)

Step(p) ==
  \/ Test(p) \/ Read(p) \/ Lock(p) \/ Rekey(p)
  \/ Store(p) \/ Unlock(p) \/ Indexes(p) \/ End(p)
  \/ Scrap(p) \/ Make(p)

Next ==
  \/ \E p \in Proc : Call(p) \/ Step(p) \/ Kill(p) \/ Start(p)
  \/ \E t \in Tables : RemoveLock(t)

(* A call goes on until it returns; the user need not make one.            *)
Fairness == \A p \in Proc : WF_vars(Step(p))

Spec     == Init /\ [][Next]_vars
FairSpec == Spec /\ Fairness

-----------------------------------------------------------------------------
CopyOf(t) ==
  [num : 0..MaxRecords[t], seq : 0..MaxSequence[t], keys : SUBSET (1..MaxRecords[t])]

TypeOK ==
  /\ {lck, raced, damaged} \subseteq SUBSET Tables
  /\ \A t \in Tables : file[t] \in CopyOf(t) /\ issued[t] \in 0..MaxSequence[t]
  /\ \A p \in Proc, t \in Tables : mem[p][t] \in CopyOf(t)
  /\ status \in [Proc -> {"running", "ended", "killed"}]
  /\ job \in [Proc -> Jobs]
  /\ use \in [Proc -> [Tables -> Uses]]
  /\ exited \in [Proc -> BOOLEAN]

(* It may rely on the table: it is open and not being closed.              *)
Holds(p, t) == use[p][t] # "free" /\ ~InGap(p, t)

(* A table has one process at a time and a .LCK file as long as that one   *)
(* relies on it, unless two were let in between the test and the creation  *)
(* of the file, between its removal and the closing of the indexes, or by  *)
(* buildTable ("closeTable ... insure that data is preserved"; DB_LOCK).   *)
(* No failing call, exit or death of a process may unlock the table of     *)
(* another.                                                                *)
SharedOnlyByRace ==
  \A t \in Tables \ raced, p \in Proc :
    /\ In(p, t) => Others(p, t) = {}
    /\ Holds(p, t) => t \in lck

(* dbseq "returns the nextSequence value stored in the table header": no   *)
(* number is given out twice, by any process, even if the one before died. *)
SequenceExact == \A t \in Tables \ raced : file[t].seq = issued[t]

(* The indexes on disk list the records the header counts whenever nobody  *)
(* works with the table, also one that was repaired by dbreindex.          *)
IndexesComplete ==
  \A t \in Tables \ (raced \cup damaged) :
    (\A p \in Proc : ~In(p, t)) => file[t].keys = 1 .. file[t].num

(* "If there are open tables, it closes all of them" (dbexit): a program   *)
(* that ends closes each table it has a handle of and leaves it unlocked,  *)
(* unless it is killed meanwhile or shares the table through a gap.        *)
ExitUnlocks ==
  \A p \in Proc, t \in Tables :
    job[p].call = "exit" /\ t \in Range(job[p].todo) /\ use[p][t] = "handle"
      ~> \/ use[p][t] = "free" /\ t \notin lck
         \/ status[p] = "killed"
         \/ t \in raced
=============================================================================
