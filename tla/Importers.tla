----------------------------- MODULE Importers -----------------------------
(* sfa-import runs the importer of the registry's flavour: PlImporter beside *)
(* PlDriver (Importer) or DummyImporter beside DummyDriver (DummyImporter).  *)
(* A registry has one flavour for good.                                      *)
EXTENDS Importer, DummyImporter

VARIABLE flavour     \* SFA_GENERIC_FLAVOUR

ImportersInit ==
  /\ ImporterInit /\ DummyInit /\ flavour \in {"pl", "dummy"}
  /\ flavour = "dummy" => \A i \in Id : db[i] = None

WithPl == flavour = "pl" /\ ImporterNext /\ UNCHANGED dummyVars
WithDummy == flavour = "dummy" /\ DummyNext /\ UNCHANGED allVars
ImportersNext == UNCHANGED flavour /\ (WithPl \/ WithDummy)

importersVars == <<allVars, dummyVars, flavour>>
ImportersSpec == ImportersInit /\ [][ImportersNext]_importersVars

\* What the two stores of either flavour and the tables of its importer hold.
ImportersTypeOK == ImporterTypeOK /\ DummyImportTypeOK

\* Whichever the flavour: what failed or overlapping requests left in the
\* registry, an undisturbed import repairs, once or twice (ImportRepairs for
\* PlanetLab, DummyImportSettles for a dummy testbed).
ImportsRepair == ImportRepairs /\ DummyImportSettles

\* Whichever the flavour: no import deletes the record of something that was
\* there all the time, whatever calls are served meanwhile (LivingKept for
\* PlanetLab, StaleOnly for a dummy testbed).
RecordsKept == LivingKept /\ StaleOnly
=============================================================================
