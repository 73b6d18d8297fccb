---------------------------- MODULE AdminEditor ----------------------------
(***************************************************************************)
(* The administrator's editor (screens/admin/useAdminEditor.ts): a copy of *)
(* all exams with their problems, a selection, a form made from the        *)
(* selected problem and one from the exam's settings, and requests that    *)
(* nothing serialises.  One editor is open; the tables change only by it.  *)
(***************************************************************************)
EXTENDS Integers, FiniteSetsExt, TLC

CONSTANTS MaxExam, MaxNumber,  \* exams and problems are numbered from 1
          Text,                \* what a form can hold
          Call,                \* the requests that can be under way at once
          Catalogues,          \* what the tables hold at first
          MaxCalls,            \* bound on the requests made
          Refused,             \* the texts of a form that its checks refuse
          NewText,             \* of a problem that was just added
          Missing

ExamId == 1 .. MaxExam
Number == 1 .. MaxNumber

Optional(S) == S \cup {Missing}
Tables == [settings : [ExamId -> Optional(Text)], problems : [ExamId -> [Number -> Optional(Text)]]]

(* A problem's row refers to an exam that is there.                        *)
Whole(t) == \A x \in ExamId : t.settings[x] = Missing => \A n \in Number : t.problems[x][n] = Missing

ASSUME EditorAssumption ==
  /\ MaxExam \in Nat /\ MaxNumber \in Nat /\ NewText \in Text
  /\ Missing \notin Text /\ Missing \notin Nat
  /\ Missing \notin {"load", "problem", "settings", "addProblem", "addExam", "asset"}
  /\ Catalogues \subseteq Tables /\ \A t \in Catalogues : Whole(t)

VARIABLES
  tables,  \* server: [settings |-> exam -> Text or Missing, problems |-> exam -> number -> ...]
  page,    \* the component's state, see EditorInit
  calls,   \* the requests under way
  made,
  doubt,   \* history: two requests met on one row, or an answer was lost
  strayed  \* history: the form belongs to a problem that is not selected

editorVars == <<tables, page, calls, made, doubt, strayed>>

NoContents == [settings |-> [x \in ExamId |-> Missing],
               problems |-> [x \in ExamId |-> [n \in Number |-> Missing]]]

NoForm == [of |-> Missing, text |-> Missing]
NoCall == [kind |-> Missing, stage |-> Missing, exam |-> Missing, number |-> Missing, value |-> Missing]
-----------------------------------------------------------------------------
(* What is selected: the first exam, the first problem when the id is not  *)
(* there.  A problem's id is its number: the same in every exam.           *)
ExamsOf(p)        == {x \in ExamId : p.copy.settings[x] # Missing}
ProblemsOf(p, x)  == {n \in Number : p.copy.problems[x][n] # Missing}
OneOf(id, ids)    == IF id \in ids THEN id ELSE IF ids = {} THEN Missing ELSE Min(ids)
SelectedExam(p)   == OneOf(p.exam, ExamsOf(p))
SelectedProblem(p) ==
  IF SelectedExam(p) = Missing THEN Missing ELSE OneOf(p.problem, ProblemsOf(p, SelectedExam(p)))
Selected(p)       == <<SelectedExam(p), SelectedProblem(p)>>

MakeForm(p) ==
  IF SelectedProblem(p) = Missing THEN NoForm
  ELSE [of |-> Selected(p), text |-> p.copy.problems[SelectedExam(p)][SelectedProblem(p)]]

(* Faulty variant: the form is made once.                                  *)
FormAfterOnce(old, new) == IF old.form = NoForm THEN MakeForm(new) ELSE new.form

(* The effect on [selectedProblem?.id].                                    *)
FormAfter(old, new) ==
  IF SelectedProblem(new) = SelectedProblem(old) THEN new.form ELSE MakeForm(new)

SettingsAfter(old, new) ==
  LET x == SelectedExam(new)
  IN  IF x = Missing \/ (x = SelectedExam(old) /\ new.copy.settings[x] = old.copy.settings[x])
      THEN new.settings ELSE new.copy.settings[x]

(* A render and its effects: a form follows the problem's id, the settings *)
(* form the exam's fields, the problem's id the exam.  `kept` says whether *)
(* a form that is not made anew belongs to another problem.                *)
Rendered(new, kept) ==
  /\ page' = [new EXCEPT !.form = FormAfter(page, new), !.settings = SettingsAfter(page, new),
                         !.problem = IF SelectedExam(new) = SelectedExam(page) THEN @
                                     ELSE SelectedProblem(new)]
  /\ strayed' = /\ SelectedProblem(new) = SelectedProblem(page)
                /\ kept \/ SelectedExam(new) # SelectedExam(page)

EditorInit ==
  /\ tables \in Catalogues
  /\ page = [copy |-> NoContents, exam |-> Missing, problem |-> Missing, form |-> NoForm, settings |-> Missing]
  /\ calls = [c \in Call |-> NoCall]
  /\ made = 0 /\ doubt = TRUE /\ strayed = FALSE
-----------------------------------------------------------------------------
(* What the administrator does at the page.                                *)
OnPage(new, kept) == Rendered(new, kept) /\ UNCHANGED <<tables, calls, made, doubt>>

SelectExam(x)    == x \in ExamsOf(page) /\ OnPage([page EXCEPT !.exam = x], strayed)
SelectProblem(n) ==
  /\ SelectedExam(page) # Missing /\ n \in ProblemsOf(page, SelectedExam(page))
  /\ OnPage([page EXCEPT !.problem = n], strayed)
EditForm(t)      == page.form # NoForm /\ OnPage([page EXCEPT !.form.text = t], strayed)
EditSettings(t)  == page.settings # Missing /\ OnPage([page EXCEPT !.settings = t], strayed)
Dirty ==
  SelectedProblem(page) # Missing /\ page.form # NoForm /\ page.form.text # MakeForm(page).text

ResetForm == Dirty /\ OnPage([page EXCEPT !.form = MakeForm(page)], FALSE)

(* Two requests whose answers may tell of each other's rows in any order.  *)
Meet(c, d) ==
  /\ "asset" \notin {c.kind, d.kind}
  /\ \/ "load" \in {c.kind, d.kind}
     \/ c.exam = d.exam /\ ("settings" \in {c.kind, d.kind} \/ c.number = d.number)

Send(c, call) ==
  LET others == {calls[d] : d \in Call} \ {NoCall}
  IN  /\ calls[c] = NoCall /\ made < MaxCalls
      /\ calls' = [calls EXCEPT ![c] = [call EXCEPT !.stage = "sent"]]
      /\ made' = made + 1
      /\ doubt' = IF call.kind = "load" /\ others = {} THEN FALSE
                  ELSE doubt \/ \E d \in others : Meet(calls'[c], d)
      /\ UNCHANGED <<tables, strayed>>

LoadExams(c) ==
  /\ \A d \in Call : calls[d].kind # "load"
  /\ Send(c, [NoCall EXCEPT !.kind = "load"]) /\ UNCHANGED page

(* bodyCheck, pointCheck, sourceMetaCheck; examSettingsCheck, newExamCheck.*)
CanSave(t)       == t \notin Refused
SettingsCheck(t) == t \notin Refused

SaveProblem(c) ==
  /\ Dirty /\ CanSave(page.form.text)
  /\ Send(c, [NoCall EXCEPT !.kind = "problem", !.exam = SelectedExam(page),
                            !.number = SelectedProblem(page), !.value = page.form.text])
  /\ UNCHANGED page

SaveExamSettings(c) ==
  /\ SelectedExam(page) # Missing /\ SettingsCheck(page.settings)
  /\ page.settings # page.copy.settings[SelectedExam(page)]
  /\ Send(c, [NoCall EXCEPT !.kind = "settings", !.exam = SelectedExam(page), !.value = page.settings])
  /\ UNCHANGED page

(* The switch sends everything in the settings form, saved before or not.  *)
ToggleExamActive(c, t) ==
  /\ SelectedExam(page) # Missing /\ t # page.settings
  /\ page' = [page EXCEPT !.settings = t]
  /\ SettingsCheck(t)
  /\ Send(c, [NoCall EXCEPT !.kind = "settings", !.exam = SelectedExam(page), !.value = t])

AskForProblem(c) ==
  /\ SelectedExam(page) # Missing
  /\ Send(c, [NoCall EXCEPT !.kind = "addProblem", !.exam = SelectedExam(page), !.value = NewText])
  /\ UNCHANGED page

(* A figure dropped on the form goes to the exam; its name comes back.     *)
UploadSvgAsset(c) ==
  /\ page.form # NoForm
  /\ Send(c, [NoCall EXCEPT !.kind = "asset", !.exam = SelectedExam(page)]) /\ UNCHANGED page

AskForExam(c, x, t) ==
  /\ SettingsCheck(t) /\ UNCHANGED page
  /\ Send(c, [NoCall EXCEPT !.kind = "addExam", !.exam = x, !.value = t])
-----------------------------------------------------------------------------
(* The server.  A settings request reads its exam back after its write.    *)
Reply(c, call) == calls' = [calls EXCEPT ![c] = call] /\ UNCHANGED <<page, made, doubt, strayed>>

ServeLoad(c) ==
  /\ calls[c].kind = "load" /\ calls[c].stage = "sent"
  /\ Reply(c, [calls[c] EXCEPT !.stage = "answered", !.value = tables])
  /\ UNCHANGED tables

WriteProblem(c) ==
  /\ calls[c].kind = "problem" /\ calls[c].stage = "sent"
  /\ tables' = [tables EXCEPT !.problems[calls[c].exam][calls[c].number] = calls[c].value]
  /\ Reply(c, [calls[c] EXCEPT !.stage = "answered"])

WriteSettings(c) ==
  /\ calls[c].kind = "settings" /\ calls[c].stage = "sent"
  /\ tables' = [tables EXCEPT !.settings[calls[c].exam] = calls[c].value]
  /\ Reply(c, [calls[c] EXCEPT !.stage = "written"])

ReadBack(c) ==
  LET x == calls[c].exam
  IN  /\ calls[c].kind = "settings" /\ calls[c].stage = "written"
      /\ Reply(c, [calls[c] EXCEPT !.stage = "answered",
                      !.value = [settings |-> tables.settings[x], problems |-> tables.problems[x]]])
      /\ UNCHANGED tables

(* createProblemInDatabase: MAX(number) + 1.                               *)
InsertProblem(c) ==
  LET x == calls[c].exam
      n == Max({0} \cup {m \in Number : tables.problems[x][m] # Missing}) + 1
  IN  /\ calls[c].kind = "addProblem" /\ calls[c].stage = "sent" /\ n \in Number
      /\ tables' = [tables EXCEPT !.problems[x][n] = calls[c].value]
      /\ Reply(c, [calls[c] EXCEPT !.stage = "answered", !.number = n])

InsertExam(c) ==
  /\ calls[c].kind = "addExam" /\ calls[c].stage = "sent"
  /\ tables.settings[calls[c].exam] = Missing
  /\ tables' = [tables EXCEPT !.settings[calls[c].exam] = calls[c].value]
  /\ Reply(c, [calls[c] EXCEPT !.stage = "answered"])

SaveExamAsset(c) ==
  /\ calls[c].kind = "asset" /\ calls[c].stage = "sent"
  /\ Reply(c, [calls[c] EXCEPT !.stage = "answered"])
  /\ UNCHANGED tables

(* Refused, failed at the server, or the answer got lost.                  *)
Fail(c) ==
  /\ calls[c] # NoCall
  /\ calls' = [calls EXCEPT ![c] = NoCall]
  /\ doubt' = (doubt \/ (calls[c].stage # "sent" /\ calls[c].kind # "asset")
                     \/ calls[c].kind = "load")
  /\ UNCHANGED <<tables, page, made, strayed>>
-----------------------------------------------------------------------------
(* The answers, as the page takes them in.                                 *)
Receive(c, kind, new, kept) ==
  /\ calls[c].kind = kind /\ calls[c].stage = "answered"
  /\ Rendered(new, kept)
  /\ calls' = [calls EXCEPT ![c] = NoCall]
  /\ UNCHANGED <<tables, made, doubt>>

ReceiveExams(c) ==
  LET data == calls[c].value
  IN  Receive(c, "load",
        [page EXCEPT !.copy = data,
                     !.exam = OneOf(page.exam, {x \in ExamId : data.settings[x] # Missing})], strayed)

(* Faulty variant: the answer goes to the exam that is selected by then.   *)
SavedIntoSelected(call) ==
  IF SelectedExam(page) = Missing THEN page.copy
  ELSE [page.copy EXCEPT !.problems[SelectedExam(page)][call.number] = call.value]

SavedProblem(call) == [page.copy EXCEPT !.problems[call.exam][call.number] = call.value]

(* saveProblem: the exam is the one selected when the request was sent, the*)
(* form becomes the answer's whatever is selected now.                     *)
ReceiveProblem(c) ==
  LET at == <<calls[c].exam, calls[c].number>>
  IN  Receive(c, "problem",
        [page EXCEPT !.copy = SavedProblem(calls[c]),
                     !.form = [of |-> at, text |-> calls[c].value]], Selected(page) # at)

ReceiveSettings(c) ==
  LET x == calls[c].exam
      new == [page EXCEPT !.copy.settings[x] = calls[c].value.settings,
                          !.copy.problems[x] = calls[c].value.problems,
                          !.exam = x, !.settings = calls[c].value.settings]
  IN  Receive(c, "settings", new, strayed)

(* insertBodyMarkup: into whatever form there is by then.                  *)
ReceiveAsset(c, t) ==
  Receive(c, "asset", IF page.form = NoForm THEN page ELSE [page EXCEPT !.form.text = t], strayed)

ReceiveNewProblem(c) ==
  Receive(c, "addProblem",
    [page EXCEPT !.copy.problems[calls[c].exam][calls[c].number] = calls[c].value,
                 !.problem = calls[c].number], strayed)

ReceiveNewExam(c) ==
  LET x == calls[c].exam
  IN  Receive(c, "addExam",
        [page EXCEPT !.copy.settings[x] = calls[c].value,
                     !.copy.problems[x] = [n \in Number |-> Missing],
                     !.exam = x, !.problem = Missing], strayed)

EditorNext ==
  \/ \E x \in ExamId : SelectExam(x)
  \/ \E n \in Number : SelectProblem(n)
  \/ \E t \in Text : EditForm(t) \/ EditSettings(t)
  \/ ResetForm
  \/ \E c \in Call :
       \/ LoadExams(c) \/ SaveProblem(c) \/ SaveExamSettings(c) \/ AskForProblem(c)
       \/ \E t \in Text : ToggleExamActive(c, t) \/ ReceiveAsset(c, t) \/ \E x \in ExamId : AskForExam(c, x, t)
       \/ ServeLoad(c) \/ WriteProblem(c) \/ WriteSettings(c) \/ ReadBack(c)
       \/ UploadSvgAsset(c) \/ SaveExamAsset(c)
       \/ InsertProblem(c) \/ InsertExam(c) \/ Fail(c)
       \/ ReceiveExams(c) \/ ReceiveProblem(c) \/ ReceiveSettings(c)
       \/ ReceiveNewProblem(c) \/ ReceiveNewExam(c)

EditorSpec == EditorInit /\ [][EditorNext]_editorVars
-----------------------------------------------------------------------------
(* Once every request is answered the copy is what the tables hold, after  *)
(* any selections in between: only requests that met on a row, or an answer*)
(* that was lost, put it in doubt, and loading again ends the doubt.       *)
CopyFollowsTables ==
  (\A c \in Call : calls[c] = NoCall) /\ ~doubt => page.copy = tables

(* What is typed is saved as the problem it was made from: the form belongs*)
(* to the selected problem.  The code loses this in two ways, which        *)
(* `strayed` records: a late answer brings the form of a problem that is no*)
(* longer selected, and a new exam's problem has the old one's id.         *)
FormBelongs ==
  ~strayed => IF SelectedProblem(page) = Missing THEN page.form = NoForm
              ELSE page.form.of = Selected(page)
=============================================================================
