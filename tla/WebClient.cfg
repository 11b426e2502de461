\* What a table shows of its records, one page in a behaviour.
SPECIFICATION WebSpec
CONSTANTS
  PagesVisited = {"grid", "record", "permissions", "filters", "fields"}
  \* the grid
  RowKeys = {1, 2}
  RowValues = {0, 1}
  MaxActions = 2
  MaxOpen = 2
  \* the modal of a record
  Fields = {f1, f2}
  Selects = {f2}
  Hidden = {f1}
  Texts = {a, b}
  None = None
  Root = x
  Linked = {x, y}
  MaxTyped = 2
  \* permissions
  Guests = {g1}
  GuestRoles = {"editor", "admin", "custom"}
  Accesses = {"editors and up", "admins and up", "creators only", "specific users only"}
  Resources = {"base", "table", "field"}
  MaxAsked = 1
  MaxSent = 1
  \* filters and sort
  Views = {v1, v2}
  Conditions = {c, d}
  SortKeys = {k}
  MaxChildren = 2
  MaxUpdates = 2
  MaxEdits = 3
  \* fields of a view
  FieldIds = {1, 2}
  MaxFieldActions = 2
  MaxFieldWrites = 2
  \* names of new tables and fields
  MaxKeys = 4
  \* a new table
  NewNames = {"n"}
  OptionTexts = {"x"}
  MaxNewFields = 3
  MaxClicks = 7
  \* tables of a base
  TableIds = {1, 2}
  MaxTableActions = 2
  MaxTableWrites = 2
  \* views of a table
  ViewIds = {1, 2}
  ViewNames = {"a", "b"}
  MaxViewActions = 2
  MaxViewWrites = 2
INVARIANTS
  WebTypeOK
  
  DifferenceOffered
  ChoiceHonoured
  AnswersAgree
  SavingEnds
  OptionsSettle
  ColumnsSettle
PROPERTIES
  SendsOnlyEntered
  DecisionTakes
