------------------------------ MODULE MCExams ------------------------------
(* One run for the two sides of an exam's administration: the server with  *)
(* its event rooms under two administrators' requests, and one editor page *)
(* with its copy of the tables.  A behaviour runs one side, the other stays*)
(* in its initial state.                                                   *)
EXTENDS ExamSettings, AdminEditor

VARIABLE part

MCSettings ==
  {[active |-> TRUE,  limit |-> 3, freeze |-> 2, release |-> 0],
   [active |-> TRUE,  limit |-> 2, freeze |-> 0, release |-> 1],
   [active |-> FALSE, limit |-> 3, freeze |-> 2, release |-> 0]}

(* Two exams with a problem 1 each, or an empty exam and an id to create.  *)
MCCatalogues ==
  {[settings |-> <<0, 0>>,       problems |-> << <<0, 1>>, <<1, Missing>> >>],
   [settings |-> <<0, Missing>>, problems |-> << <<Missing, Missing>>, <<Missing, Missing>> >>]}

MCInit == part \in {"server", "editor"} /\ Init /\ EditorInit

MCNext ==
  \/ part = "server" /\ Next /\ UNCHANGED <<part, editorVars>>
  \/ part = "editor" /\ EditorNext /\ UNCHANGED <<part, vars>>

MCSpec == MCInit /\ [][MCNext]_<<part, vars, editorVars>>

(* Administrators differ only in name, and so do the editor's requests.    *)
MCSymmetry == Permutations(Admin) \cup Permutations(Call)
=============================================================================
