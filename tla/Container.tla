------------------------------ MODULE Container ------------------------------
(***************************************************************************)
(* container.c: sorted containers for scripts.  A container is a shell     *)
(* (module Shell) whose links carry records, a buffer the next record is   *)
(* set in, and a current record.  A script names a container by a string,  *)
(* which is looked up in container_handles.                                *)
(*                                                                         *)
(* A record is a number, the value of its indexed field; 0 is the field of *)
(* a buffer of zeros.  The other fields follow it.  A handle has           *)
(*   def         its definition: name, isUnique, isString: the type of the *)
(*               indexed field is string; and a bound on its records       *)
(*   shl         hdl->shl; its links have a field val, the record          *)
(*   current     hdl->current: a link, HEAD or TAIL                        *)
(*   data        the record in the buffer                                  *)
(*   numRecords  hdl->numRecords                                           *)
(***************************************************************************)
EXTENDS Shell

CONSTANTS
  Scripts,  (* scripts: each with the files it may load, and a bound on    *)
            (* its containers of at most 20, the length of the array       *)
            (* container_handles                                           *)
  Values,   (* the values set and searched for                             *)
  Heavy     (* whether a call may follow one of many comparisons           *)

ASSUME ContainerAssumption ==
  /\ Heavy \subseteq BOOLEAN /\ Values \subseteq Int
  /\ \A s \in Scripts : /\ s.handles \in 1..20
                        /\ \A d \in s.files : d.records \in Nat

(* NULL is no link, and _ERROR_ is neither _OK_ nor TRUE.                 *)
ASSUME ResultsAssumption ==
  NONE # OK /\ NONE # TRUE /\ NONE \notin [key : Int, val : Int, id : Int]

VARIABLES
  handles,  (* container_handles[0 .. num_container_handles - 1]           *)
  kept,     (* how many of each record each of them was given and has not  *)
            (* been told to delete: what a script expects it to hold       *)
  script    (* the element of Scripts                                      *)

vars == <<handles, kept, script>>

Files == UNION {s.files : s \in Scripts}
Names == {d.name : d \in Files}
Records == Values \cup {0}

(* The index of a container in container_handles: the first of that name.  *)
findContainerHandleNumber(name) == SelectInSeq(handles, LAMBDA h : h.def.name = name)
IsHandle(name) == findContainerHandleNumber(name) # 0

(* What container_compare sees of a record.  Two strings are compared; for *)
(* a number the type and the offset of the field are added, not looked up, *)
(* so that all records of a container are equal.                           *)
container_compare(def, v) == IF def.isString THEN v ELSE 0

InContainer(h) == ToSet(Links(h.shl))

NewLink(h) ==
  LET v == h.data
  IN [key |-> container_compare(h.def, v), val |-> v,
      id  |-> Min(1 .. h.def.records + 1 \ {l.id : l \in InContainer(h)})]

(* lh->current, as a link or a sentinel.                                   *)
ListCurrent(s) ==
  IF s.lh.cur = 0 THEN HEAD
  ELSE IF s.lh.cur > Len(Links(s)) THEN TAIL ELSE Links(s)[s.lh.cur]

(* What a call reads is defined: no node has lost its link, and the list   *)
(* is not walked behind its end (sort.c:2943).                             *)
Defined(s, k) ==
  /\ ToSet(s.nodes) \subseteq ToSet(Links(s))
  /\ ~ (/\ s.nodes = <<>> /\ ~s.isUnique /\ Len(Links(s)) > 1
        /\ \A l \in ToSet(Links(s)) : l.key = k)

NewHandle(def) ==
  [def |-> def, shl |-> initShell(def.isUnique), current |-> HEAD, data |-> 0,
   numRecords |-> 0]

-----------------------------------------------------------------------------
Init == handles = <<>> /\ kept = <<>> /\ script \in Scripts

(* The shell's result is taken from it.                                    *)
Returned(s) == [s EXCEPT !.ret = OK]

(* A call for the container of a name replaces its handle.                 *)
Call(name, h) ==
  /\ handles' = [handles EXCEPT ![findContainerHandleNumber(name)] =
                   [h EXCEPT !.shl = Returned(@)]]
  /\ UNCHANGED script

Handle(name) == handles[findContainerHandleNumber(name)]

(* containerInit, of a file that parses.  With all the handles in use it   *)
(* would test and fill the element behind the array: not modelled.         *)
containerInit(def) ==
  /\ def \in script.files
  /\ Len(handles) < script.handles
  /\ handles' = Append(handles, NewHandle(def))
  /\ kept' = Append(kept, [v \in Records |-> 0])
  /\ UNCHANGED script

(* Mutant: the last handle is taken from the array.                        *)
withoutLast(i) == SubSeq(handles, 1, Len(handles) - 1)

(* The handles behind the deleted one move down.                           *)
without(i) == RemoveAt(handles, i)

containerDelete(name) ==
  LET i == findContainerHandleNumber(name)
  IN /\ IsHandle(name)
     /\ handles' = without(i)
     /\ kept' = RemoveAt(kept, i)
     /\ UNCHANGED script

(* The error of every shell is reset, and no container else is changed.    *)
containerClearError ==
  /\ handles' = [i \in DOMAIN handles |-> [handles[i] EXCEPT !.shl.error = "NOERROR"]]
  /\ UNCHANGED <<kept, script>>

(* containerSetInt, -Long, -Float, -Double and -String.                    *)
containerSet(name, v) ==
  /\ IsHandle(name)
  /\ Call(name, [Handle(name) EXCEPT !.data = v])
  /\ UNCHANGED kept

(* The current record is copied into the buffer first: what has been set   *)
(* there is lost.                                                          *)
containerGetField(name) ==
  LET h == Handle(name)
      v == IF h.current \in {HEAD, TAIL} THEN h.data ELSE h.current.val
  IN /\ IsHandle(name)
     /\ Call(name, [h EXCEPT !.data = v])
     /\ UNCHANGED kept

Added(name, h, s) ==
  \/ /\ s.ret = NONE
     /\ Call(name, [h EXCEPT !.shl = s, !.current = ListCurrent(s)])
     /\ UNCHANGED kept
  \/ /\ s.ret # NONE
     /\ Call(name, [h EXCEPT !.shl = s, !.current = ListCurrent(s), !.data = 0,
                             !.numRecords = Len(Links(s))])
     /\ kept' = [kept EXCEPT ![findContainerHandleNumber(name)][h.data] = @ + 1]

containerAddRecord(name, heavy) ==
  LET h == Handle(name)
  IN /\ IsHandle(name)
     /\ Len(Links(h.shl)) < h.def.records
     /\ Defined(Balance(h.shl, heavy), NewLink(h).key)
     /\ Added(name, h, addShellItem(h.shl, NewLink(h), heavy))

(* A miss is an error, not FALSE, while the shell still has the error of   *)
(* an earlier call.                                                        *)
Searched(h, s) ==
  IF s.ret # NONE THEN [h |-> [h EXCEPT !.shl = s, !.current = s.ret], ret |-> TRUE]
  ELSE [h |-> [h EXCEPT !.shl = s], ret |-> IF s.error = "NOERROR" THEN FALSE ELSE NONE]

Search(h, v, heavy) ==
  Searched(h, findShellItem(h.shl, container_compare(h.def, v), heavy))

containerSearch(name, v, heavy) ==
  /\ IsHandle(name)
  /\ Defined(Handle(name).shl, NONE)
  /\ Call(name, Search(Handle(name), v, heavy).h)
  /\ UNCHANGED kept

containerQuery(name, v, heavy) ==
  LET h == Handle(name)
  IN /\ IsHandle(name)
     /\ Defined(h.shl, NONE)
     /\ Call(name, Searched(h, queryShellItem(h.shl, container_compare(h.def, v), heavy)).h)
     /\ UNCHANGED kept

(* Mutant: the current record is left as it is.                            *)
RemovedNoCursor(h, s) == [h EXCEPT !.shl = s, !.numRecords = Len(Links(s))]

(* Mutant: numRecords is left as it is.                                    *)
RemovedNoCount(h, s) == [h EXCEPT !.shl = s, !.current = ListCurrent(s)]

Removed(h, s) ==
  [h EXCEPT !.shl = s, !.numRecords = Len(Links(s)), !.current = ListCurrent(s)]

(* The record containerSearch finds for the value is deleted, and not the  *)
(* current one: s is the shell as removeShellItem leaves it.               *)
Deleted(name, h, s) ==
  \/ s.ret = NONE /\ Call(name, [h EXCEPT !.shl = s]) /\ UNCHANGED kept
  \/ /\ s.ret # NONE
     /\ Call(name, Removed(h, s))
     /\ kept' = [kept EXCEPT ![findContainerHandleNumber(name)][h.current.val] = @ - 1]

DeleteFound(name, f) ==
  \/ f.ret # TRUE /\ Call(name, f.h) /\ UNCHANGED kept
  \/ f.ret = TRUE /\ Deleted(name, f.h, removeShellItem(f.h.shl, f.h.current))

containerDeleteRecord(name, v, heavy) ==
  /\ IsHandle(name)
  /\ Defined(Handle(name).shl, NONE)
  /\ DeleteFound(name, Search(Handle(name), v, heavy))

-----------------------------------------------------------------------------
(* The cursor.  An empty container has it on a sentinel.                   *)
Goto(name, link) ==
  /\ IsHandle(name)
  /\ Call(name, [Handle(name) EXCEPT !.current = link])
  /\ UNCHANGED kept

LinkAt(h, p) ==
  IF p < 1 THEN HEAD ELSE IF p > Len(Links(h.shl)) THEN TAIL ELSE Links(h.shl)[p]

PlaceOf(h) ==
  IF h.current = HEAD THEN 0 ELSE IF h.current = TAIL THEN Len(Links(h.shl)) + 1
  ELSE Pos(h.shl, h.current)

containerFirst(name) ==
  LET h == Handle(name)
  IN Goto(name, IF h.numRecords = 0 THEN HEAD ELSE LinkAt(h, 1))

containerLast(name) ==
  LET h == Handle(name)
  IN Goto(name, IF h.numRecords = 0 THEN TAIL ELSE LinkAt(h, Len(Links(h.shl))))

containerNext(name) ==
  LET h == Handle(name)
  IN Goto(name, IF h.numRecords = 0 THEN HEAD ELSE LinkAt(h, PlaceOf(h) + 1))

containerPrev(name) ==
  LET h == Handle(name)
  IN Goto(name, IF h.numRecords = 0 THEN HEAD ELSE LinkAt(h, PlaceOf(h) - 1))

containerBOF(h) == h.numRecords # 0 /\ h.current = LinkAt(h, 1)
containerEOF(h) == h.numRecords # 0 /\ h.current = LinkAt(h, Len(Links(h.shl)))

containerRestructureIndex(name) ==
  LET h == Handle(name)
  IN /\ IsHandle(name)
     /\ Call(name, [h EXCEPT !.shl = restructureShellNodes(@)])
     /\ UNCHANGED kept

Next ==
  \/ \E d \in Files : containerInit(d)
  \/ containerClearError
  \/ \E n \in Names :
       \/ containerDelete(n) \/ containerGetField(n) \/ containerFirst(n)
       \/ containerLast(n) \/ containerNext(n) \/ containerPrev(n)
       \/ containerRestructureIndex(n)
       \/ \E v \in Values : containerSet(n, v)
       \/ \E heavy \in Heavy : containerAddRecord(n, heavy)
       \/ \E v \in Values, heavy \in Heavy :
            \/ containerSearch(n, v, heavy) \/ containerQuery(n, v, heavy)
            \/ containerDeleteRecord(n, v, heavy)

Spec == Init /\ [][Next]_vars

-----------------------------------------------------------------------------
(* A container holds what the script has added and not deleted, in order,  *)
(* whichever node or level each call went through.                         *)
ContentsExact ==
  \A i \in DOMAIN handles :
    LET l == Links(handles[i].shl)
    IN /\ handles[i].numRecords = Len(l)
       /\ {l[p].val : p \in DOMAIN l} \subseteq Records
       /\ \A v \in Records : Cardinality({p \in DOMAIN l : l[p].val = v}) = kept[i][v]
       /\ \A p, q \in DOMAIN l : p < q => l[p].key <= l[q].key

(* hdl->current is a link of the list or a sentinel of it, so that the     *)
(* next containerNext, containerGetField or containerDeleteRecord does not *)
(* read a link that was freed.                                             *)
CursorAlive ==
  \A i \in DOMAIN handles :
    handles[i].current \in InContainer(handles[i]) \cup {HEAD, TAIL}

(* A call for one container does not touch another one, and deleting one   *)
(* leaves the others where the script finds them.                          *)
Spared(n) ==
  IsHandle(n) => /\ IsHandle(n)'
                 /\ Links(Handle(n).shl)' = Links(Handle(n).shl)
                 /\ Handle(n).current' = Handle(n).current
OthersUntouched ==
  [][/\ \E n \in Names : \A m \in Names \ {n} : Spared(m)
     /\ \A n \in Names : containerDelete(n) => \A m \in Names \ {n} : Spared(m)]_vars

=============================================================================
