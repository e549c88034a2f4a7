------------------------------- MODULE DBIter -------------------------------
(***************************************************************************)
(* DBIter: turns the entries of the database, in which a user key may      *)
(* occur many times, into what a reader at one sequence number sees.  The  *)
(* internal iterator is a place in a sorted list (module Iterators shows   *)
(* that it is one).                                                        *)
(***************************************************************************)
EXTENDS Integers, Sequences, FiniteSets, SequencesExt, FiniteSetsExt

CONSTANTS
  Users,        \* user keys: numbers above 0, which stands for the empty key
  MaxSeq,       \* bound: sequence numbers
  Snapshots,    \* sequence_
  MaxBad        \* bound: entries whose key cannot be parsed

UserKeys == Users \subseteq Nat \ {0} /\ MaxSeq \in Nat

VARIABLES
  list,       \* the entries: [user, seq, type, bad], in the order of internal keys
  snapshot,   \* sequence_
  d,          \* DBIter: place of iter_, direction_, valid_, saved_key_, saved_value_, status_
  call        \* the last call
vars == <<list, snapshot, d, call>>

\* InternalKeyComparator.
Less(a, b) == a.user < b.user \/ (a.user = b.user /\ a.seq > b.seq)
NewDBIterator == [p |-> 0, direction |-> "forward", valid |-> FALSE, key |-> 0, value |-> 0, ok |-> TRUE]

\* iter_: its place after a step, 0 if it is not valid.
IterNext(p) == (p + 1) % (Len(list) + 1)
IterPrev(p) == p - 1
IterSeek(user, seq) ==
  LET from == {i \in DOMAIN list : ~Less(list[i], [user |-> user, seq |-> seq])}
  IN IF from = {} THEN 0 ELSE Min(from)

\* ParseKey: an entry that cannot be parsed leaves an error.
Parsed(x) == [x EXCEPT !.ok = @ /\ ~list[x.p].bad]

\* An entry that the reader may see.
Readable(x) == ~list[x.p].bad /\ list[x.p].seq <= snapshot
-----------------------------------------------------------------------------

\* A deletion hides the older entries of its key.
AfterDeletion(skipping, skip, e) == [skipping |-> TRUE, skip |-> e.user]

RECURSIVE FindNextUserEntry(_, _, _)
FindNextUserEntry(x, skipping, skip) ==
  LET y == Parsed(x)
      e == list[x.p]
      s == IF Readable(x) /\ e.type = "deletion" THEN AfterDeletion(skipping, skip, e)
           ELSE [skipping |-> skipping, skip |-> skip]
      next == [y EXCEPT !.p = IterNext(@)]
  IN IF Readable(x) /\ e.type = "value" /\ ~(skipping /\ e.user <= skip)
     THEN [y EXCEPT !.valid = TRUE, !.key = 0]
     ELSE IF next.p = 0 THEN [next EXCEPT !.key = 0, !.valid = FALSE]
     ELSE FindNextUserEntry(next, s.skipping, s.skip)

\* The entries of the key in saved_key_ are behind us.
Stop(e, x, type) == type # "deletion" /\ e.user < x.key

RECURSIVE ScanBack(_, _)
\* The loop of FindPrevUserEntry; type is value_type.
ScanBack(x, type) ==
  LET y == Parsed(x)
      e == list[x.p]
      kept == IF ~Readable(x) THEN y
              ELSE IF e.type = "deletion" THEN [y EXCEPT !.key = 0, !.value = 0]
              ELSE [y EXCEPT !.key = e.user, !.value = e.seq]
  IN IF x.p = 0 THEN [x |-> x, type |-> type]
     ELSE IF Readable(x) /\ Stop(e, x, type) THEN [x |-> y, type |-> type]
     ELSE ScanBack([kept EXCEPT !.p = IterPrev(@)], IF Readable(x) THEN e.type ELSE type)

FindPrevUserEntry(x) ==
  LET s == ScanBack(x, "deletion")
  IN IF s.type = "deletion" THEN [s.x EXCEPT !.valid = FALSE, !.key = 0, !.value = 0, !.direction = "forward"]
     ELSE [s.x EXCEPT !.valid = TRUE]

RECURSIVE BackOver(_, _)
\* Prev until the user key changes.
BackOver(p, user) == LET q == IterPrev(p) IN IF q # 0 /\ list[q].user >= user THEN BackOver(q, user) ELSE q

\* Moving backward iter_ is before the entries of the key, perhaps before all.
Entered(x) == IF x.p = 0 THEN (IF list = <<>> THEN 0 ELSE 1) ELSE IterNext(x.p)

StepForward(x) ==
  IF x.direction = "forward" THEN FindNextUserEntry(x, TRUE, list[x.p].user)
  ELSE LET y == [x EXCEPT !.direction = "forward", !.p = Entered(x)]
       IN IF y.p = 0 THEN [y EXCEPT !.valid = FALSE, !.key = 0]
          ELSE FindNextUserEntry(y, TRUE, y.key)

StepBackward(x) ==
  IF x.direction = "reverse" THEN FindPrevUserEntry(x)
  ELSE LET y == [x EXCEPT !.key = list[x.p].user, !.p = BackOver(@, list[x.p].user)]
       IN IF y.p = 0 THEN [y EXCEPT !.valid = FALSE, !.key = 0, !.value = 0]
          ELSE FindPrevUserEntry([y EXCEPT !.direction = "reverse"])

From(x, p) ==
  LET y == [x EXCEPT !.direction = "forward", !.value = 0, !.p = p]
  IN IF p = 0 THEN [y EXCEPT !.valid = FALSE] ELSE FindNextUserEntry(y, FALSE, 0)
-----------------------------------------------------------------------------
\* Every sequence number wrote or deleted one key, or is no longer there.
Init ==
  /\ \E what \in [1..MaxSeq -> (Users \X {"value", "deletion"}) \cup {<<0, "gone">>}], wrong \in SUBSET (1..MaxSeq) :
        /\ Cardinality(wrong) <= MaxBad
        /\ \A s \in wrong : what[s][1] # 0
        /\ list = SetToSortSeq({[user |-> what[s][1], seq |-> s, type |-> what[s][2], bad |-> s \in wrong] :
                                  s \in {t \in 1..MaxSeq : what[t][1] # 0}}, Less)
  /\ snapshot \in Snapshots
  /\ d = NewDBIterator /\ call = <<"new">>

Call(name, x) == call' = name /\ d' = x /\ UNCHANGED <<list, snapshot>>

SeekToFirst == Call(<<"first">>, From(d, IF list = <<>> THEN 0 ELSE 1))
Seek(user) == Call(<<"seek", user>>, From(d, IterSeek(user, snapshot)))
SeekToLast == Call(<<"last">>, FindPrevUserEntry([d EXCEPT !.direction = "reverse", !.value = 0, !.p = Len(list)]))
DBNext == d.valid /\ Call(<<"next">>, StepForward(d))
DBPrev == d.valid /\ Call(<<"prev">>, StepBackward(d))

Next == SeekToFirst \/ SeekToLast \/ DBNext \/ DBPrev \/ \E user \in Users : Seek(user)
Spec == Init /\ [][Next]_vars
-----------------------------------------------------------------------------
Key == IF d.direction = "forward" THEN list[d.p].user ELSE d.key
Value == IF d.direction = "forward" THEN list[d.p].seq ELSE d.value

\* Forward, iter_ is at the entry shown; backward, it is before all entries of the
\* key shown, and between them are only entries that the reader may not see.
TypeOK ==
  /\ d.p \in 0..Len(list)
  /\ d.valid /\ d.direction = "forward" => d.p # 0
  /\ d.valid /\ d.direction = "reverse" =>
       \A i \in DOMAIN list : /\ i <= d.p => list[i].user < d.key
                              /\ i > d.p /\ list[i].user < d.key => list[i].seq > snapshot \/ list[i].bad

\* The comment on the second direction: "the internal iterator is positioned just
\* before all entries whose user key == this->key()".
JustBefore ==
  d.valid /\ d.direction = "reverse" => \A i \in DOMAIN list : (i <= d.p) <=> (list[i].user < d.key)

\* What a reader at the snapshot sees: the newest entry of every key, if it is a value.
Visible ==
  LET newest == {i \in DOMAIN list :
                   /\ list[i].seq <= snapshot /\ list[i].type = "value"
                   /\ \A j \in DOMAIN list : list[j].user = list[i].user /\ list[j].seq <= snapshot
                                               => list[j].seq <= list[i].seq}
      at == SetToSortSeq(newest, <)
  IN [k \in DOMAIN at |-> [key |-> list[at[k]].user, value |-> list[at[k]].seq]]
At ==
  IF ~d.valid THEN 0
  ELSE IF \E k \in DOMAIN Visible : Visible[k] = [key |-> Key, value |-> Value]
       THEN CHOOSE k \in DOMAIN Visible : Visible[k] = [key |-> Key, value |-> Value] ELSE -1
Lower(a, b) == a < b
Cursor == INSTANCE SortedCursor WITH entries <- Visible, at <- At, call <- call, Targets <- Users, Before <- Lower

\* The reader sees the database as of its sequence number, newest values only, and
\* no deleted key, in either direction and across every change of direction.
IsCursor == Cursor!Spec

\* An entry that cannot be parsed is stepped over, and the status tells: while it
\* is ok the reader has seen no value that something newer hides.
ErrorsSurface == d'.ok => Cursor!Next \/ UNCHANGED vars
=============================================================================
