SPECIFICATION Spec
CONSTANTS
    Commands = {c1, c2}
    Home = home
    Root = root
    Dirs = {home, root, dir}
    NoDir = NoDir
    NoCommand = NoCommand
CHECK_DEADLOCK FALSE
INVARIANTS
    DetachedRunWhereAsked
