CONSTANTS
  Rows = 2
  Columns = 4
  TabWidth = 3
  MaxParams = 2
  WordSize = 6
  Byte <- Bytes
  Shown = {">", "a", "b"}
  Garbage = {2}
  Prompt <- MCPrompt
  Keys = {"a", "TAB"}
  LineMax = 4
  HistoryMax = 2
  Outputs <- MCOutputs
SPECIFICATION TerminalSpec
INVARIANTS
  CursorOnScreen
  ParametersFresh
  InterruptStartsLine
  LineShown
  LastLineRecalled
