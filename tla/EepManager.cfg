SPECIFICATION Spec
CONSTANTS
    SIZE = 2
    MaxChanges = 3
    MaxResets = 2
\* With no change pending and no reset left nothing happens.
CHECK_DEADLOCK FALSE
INVARIANTS OneCopyIntact NeverOlderThanKept QuietIsSaved
PROPERTY EventuallySaved
