----------------------------- MODULE StepEditor -----------------------------
(***************************************************************************)
(* The command and the arguments of a step as the step editor and the code *)
(* editor in it show and change them (step-editor.ts, code-editor.ts):     *)
(* what is shown of a step is its arguments joined by line breaks, and how *)
(* a text is cut into arguments depends on the command of that moment.     *)
(*                                                                         *)
(* A text is a sequence of lines and a command one of words, Blank being   *)
(* the empty line or word; spaces within a line are left out.  The page    *)
(* renders before the next event, so a change and the rendering that       *)
(* follows are one action.                                                 *)
(***************************************************************************)
EXTENDS Integers, SequencesExt

CONSTANTS
  Step,                    \* the cards there may be
  Kinds,                   \* the containers addStep makes: bash, python, kubectl, custom
  TypedCommand, TypedText, \* what the user may write into the two fields
  None,
  MaxKeystrokes            \* how many changes the user makes to either

Blank == ""

VARIABLES
  containers,              \* command and args of each card's container, None without a card
  selected,                \* the step in the drawer
  doc,                     \* the document of the code editor, which is its value too
  bound,                   \* the value the template gave it last
  keystrokes

vars == <<containers, selected, doc, bound, keystrokes>>

----------------------------------------------------------------------------
IsScriptMode(container) ==
  container.command # <<>> /\ Last(container.command) = "-c"

Shown(container) == IF container.args = <<>> THEN <<Blank>> ELSE FlattenSeq(container.args)

\* trim(), of a text: the lines before the first word and after the last go.
Trimmed(text) ==
  LET written == {i \in DOMAIN text : text[i] # Blank}
  IN  IF written = {} THEN <<>> ELSE SubSeq(text, Min(written), Max(written))

\* One argument under -c; otherwise one for each line that is not blank.
Arguments(container, text) ==
  IF IsScriptMode(container)
  THEN IF Trimmed(text) = <<>> THEN <<>> ELSE <<Trimmed(text)>>
  ELSE LET lines == SelectSeq(text, LAMBDA line : line # Blank)
       IN  [i \in DOMAIN lines |-> <<lines[i]>>]

\* A space at either end leaves a blank word; nothing but spaces is no command.
Words(typed) == IF \A i \in DOMAIN typed : typed[i] = Blank THEN <<>> ELSE typed

\* Lit sets the editor's value only when it differs from what was bound last,
\* and the editor then replaces its document.
Render(shown, written) ==
  /\ bound' = shown
  /\ doc' = IF shown = bound THEN written ELSE shown

----------------------------------------------------------------------------
Type == keystrokes > 0 /\ keystrokes' = keystrokes - 1

\* The new card is selected; an open drawer keeps its editor.
Select(step) ==
  /\ selected' = step
  /\ IF selected = None THEN bound' = Shown(containers'[step]) /\ doc' = bound'
     ELSE Render(Shown(containers'[step]), doc)

AddStep(step, kind) ==
  /\ containers[step] = None
  /\ containers' = [containers EXCEPT ![step] = kind]
  /\ Select(step)
  /\ UNCHANGED keystrokes

SelectStep(step) ==
  /\ containers[step] # None
  /\ UNCHANGED <<containers, keystrokes>>
  /\ Select(step)

CloseDrawer ==
  /\ selected # None
  /\ selected' = None
  /\ UNCHANGED <<containers, doc, bound, keystrokes>>

\* The arguments stay as they were cut under the command before.
UpdateCommand(typed) ==
  /\ selected # None /\ Type
  /\ containers' = [containers EXCEPT ![selected].command = Words(typed)]
  /\ UNCHANGED <<selected, doc, bound>>

UpdateArgs(text) ==
  /\ selected # None /\ Type
  /\ text # doc
  /\ containers' = [containers EXCEPT ![selected].args = Arguments(containers[selected], text)]
  /\ Render(Shown(containers'[selected]), text)
  /\ UNCHANGED selected

----------------------------------------------------------------------------
Init ==
  /\ containers = [step \in Step |-> None]
  /\ selected = None
  /\ doc = <<Blank>> /\ bound = <<Blank>>
  /\ keystrokes = MaxKeystrokes

Next ==
  \/ \E step \in Step, kind \in Kinds : AddStep(step, kind)
  \/ \E step \in Step : SelectStep(step)
  \/ CloseDrawer
  \/ \E typed \in TypedCommand : UpdateCommand(typed)
  \/ \E text \in TypedText : UpdateArgs(text)

Spec == Init /\ [][Next]_vars
-----------------------------------------------------------------------------
\* The editor labels the text of a command that ends in -c "Script (passed as
\* single argument to -c)".  A text that was cut into arguments under another
\* command, and is then given one that ends in -c, must be one argument again:
\* else the shell runs its first line and takes the others for parameters.
ScriptIsOneArgument ==
  selected # None /\ IsScriptMode(containers[selected]) => Len(containers[selected].args) <= 1
=============================================================================
