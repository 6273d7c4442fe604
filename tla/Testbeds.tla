------------------------------ MODULE Testbeds ------------------------------
(* An aggregate with the driver of its flavour: sfa.generic makes the driver *)
(* that the configuration names, and it stays with the aggregate.            *)
EXTENDS DummyDriver, IotLabDriver

VARIABLE flavour

vars == <<manager, dummyVars, iotVars, flavour>>

Init ==
  /\ ManagerInit /\ IotInit
  /\ \/ flavour = "dummy" /\ DummyInit
     \/ /\ flavour = "iotlab"
        /\ slices = <<>> /\ rows = [s \in {} |-> ""] /\ asked = [n \in {} |-> ""] /\ NoLocals

Next ==
  /\ UNCHANGED flavour
  /\ \/ flavour = "dummy" /\ DummyNext /\ UNCHANGED iotVars
     \/ flavour = "iotlab" /\ IotNext /\ UNCHANGED dummyVars

\* Threads run, and a broken connection gets noticed: so every call ends.
Work(w) ==
  /\ UNCHANGED flavour
  /\ \/ flavour = "dummy" /\ DummyStep(w) /\ UNCHANGED iotVars
     \/ flavour = "iotlab" /\ IotStep(w) /\ UNCHANGED dummyVars

LinesAreWatched ==
  \E c \in Calls : LineIsDown(c) /\ UNCHANGED <<dummyVars, iotVars, flavour>>

Spec ==
  /\ Init /\ [][Next]_vars
  /\ \A w \in Workers : WF_vars(Work(w))
  /\ WF_vars(LinesAreWatched)

\* What the variables of the manager and of both drivers may hold.
TestbedsTypeOK == ManagerTypeOK /\ DummyTypeOK /\ IotTypeOK

\* What earlier requests left behind never stands in the way: a request that
\* runs alone, and during which no call of the testbed fails and no user without
\* keys is met, is answered by an exception from within the driver only if the
\* driver has no answer to such a request on such a slice in the first place.
NeverStuck == \A w \in Workers : pc[w] = "raised" /\ Undisturbed(w) =>
  IF flavour = "dummy" THEN Unservable(w) ELSE ~Complete(w)
=============================================================================
