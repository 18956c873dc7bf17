------------------------ MODULE FirstAdministrator ------------------------
(***************************************************************************)
(* What the bootstrap of a Tenant promises, whatever its workers do: one   *)
(* person is ever appointed, and it is either the person Core named, by an *)
(* acceptance of their own, or one that a second administrator approved.   *)
(***************************************************************************)
CONSTANTS People, None

VARIABLES intended,  \* the person Core named
          approved,  \* the people a recovery was approved for
          holder     \* the first administrator

Init == intended = None /\ approved = {} /\ holder = None

Name(p) ==
  /\ intended = None /\ holder = None
  /\ intended' = p
  /\ UNCHANGED <<approved, holder>>

Approve(p) ==
  /\ holder = None
  /\ approved' = approved \cup {p}
  /\ UNCHANGED <<intended, holder>>

Accept ==
  /\ holder = None /\ intended # None
  /\ holder' = intended
  /\ UNCHANGED <<intended, approved>>

Replace(p) ==
  /\ holder = None /\ p \in approved /\ p # intended
  /\ holder' = p
  /\ UNCHANGED <<intended, approved>>

Next == Accept \/ \E p \in People : Name(p) \/ Approve(p) \/ Replace(p)

Spec == Init /\ [][Next]_<<intended, approved, holder>>

=============================================================================
