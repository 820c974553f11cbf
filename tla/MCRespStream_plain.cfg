CONSTANTS
  Args <- PlainArgs
  MaxArgs = 2
  MaxCmds = 1
  MaxReplies = 2
SPECIFICATION Spec
INVARIANTS ReadsBack 
 
