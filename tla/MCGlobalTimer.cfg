CONSTANTS
  WordMod = 4
  MaxCount = 13
SPECIFICATION TimerSpec
INVARIANTS ValueWasShown
