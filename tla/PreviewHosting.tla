--------------------------- MODULE PreviewHosting ---------------------------
(***************************************************************************)
(* What becomes of a preview, without saying how: its row appears, then    *)
(* what it has on the host; what it has on the host goes before its row    *)
(* does, and a preview that is gone neither returns nor has anything there *)
(* again.  Only a preview that is excused, for an operation of its removal *)
(* failed or got in the way of another activity, may be left behind.       *)
(*                                                                         *)
(* PreviewDeployments implements this specification.                       *)
(***************************************************************************)
CONSTANT Previews

VARIABLES
  rows,      \* the previews in the database
  gone,      \* those that were
  hosted,    \* the previews that have something on the host
  excused

vars == <<rows, gone, hosted, excused>>

Init == rows = {} /\ gone = {} /\ hosted = {} /\ excused = {}

\* A preview of a pull request that is in disorder starts excused.
Create(p) ==
  /\ p \notin rows \cup gone
  /\ rows' = rows \cup {p} /\ excused' \in {excused, excused \cup {p}}
  /\ UNCHANGED <<gone, hosted>>

Host(p) ==
  /\ p \in rows \cup excused
  /\ hosted' = hosted \cup {p}
  /\ UNCHANGED <<rows, gone, excused>>

Clear(p) ==
  /\ hosted' = hosted \ {p}
  /\ UNCHANGED <<rows, gone, excused>>

\* One row, or all rows of an application.
Drop(S) ==
  /\ S \subseteq rows /\ S \cap hosted \subseteq excused
  /\ rows' = rows \ S /\ gone' = gone \cup S
  /\ UNCHANGED <<hosted, excused>>

Excuse(S) ==
  /\ S \subseteq rows \cup gone
  /\ excused' = excused \cup S
  /\ UNCHANGED <<rows, gone, hosted>>

Next ==
  \/ \E p \in Previews : Create(p) \/ Host(p) \/ Clear(p)
  \/ \E S \in SUBSET Previews : Drop(S) \/ Excuse(S)

Spec == Init /\ [][Next]_vars
=============================================================================
