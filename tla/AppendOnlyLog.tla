--------------------------- MODULE AppendOnlyLog ---------------------------
(***************************************************************************)
(* What an audit log promises: what is written stays where it is, and is   *)
(* there once.  A commit appends new entries; only entries of the kinds in *)
(* Removable are ever taken out again, and the others keep their order.    *)
(***************************************************************************)
EXTENDS Sequences, SequencesExt

CONSTANT Removable

VARIABLE entries

Init == entries = << >>

\* e stands before f in the log s.
Precedes(s, e, f) == \E i, j \in DOMAIN s : i < j /\ s[i] = e /\ s[j] = f

Commit ==
  /\ entries # entries' /\ IsPrefix(entries, entries')
  /\ IsInjective(entries')

Purge ==
  /\ entries # entries'
  /\ ToSet(entries') \subseteq ToSet(entries)
  /\ \A e, f \in ToSet(entries') :
       Precedes(entries', e, f) => Precedes(entries, e, f)
  /\ \A e \in ToSet(entries) \ ToSet(entries') : e.kind \in Removable

Spec == Init /\ [][Commit \/ Purge]_entries
=============================================================================
