CONSTANTS
  Step = {s1, s2}
  Kinds <- AllKinds
  TypedCommand <- Commands
  TypedText <- TextsTyped
  None = None
  MaxKeystrokes = 4

SPECIFICATION Spec

INVARIANT ScriptIsOneArgument
