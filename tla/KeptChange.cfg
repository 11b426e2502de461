\* What "Keep current change" leaves on the screen, against what is saved.
SPECIFICATION ModalSpec
CONSTANTS
  Fields = {f1, f2}
  Selects = {}
  Hidden = {}
  Texts = {a, b}
  None = None
  Root = x
  Linked = {x, y}
  MaxTyped = 2
PROPERTY KeptChangeSaved
