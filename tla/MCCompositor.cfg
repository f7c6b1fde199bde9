SPECIFICATION Spec
CONSTANTS
    Programs = {p1}
    Demo = demo
    MAX_WINDOWS = 2
    EVENT_QUEUE_CAP = 1
    MaxId = 2
    Infos = 0
    MAX_TERMS = 1
    MaxKeys = 1
INVARIANTS
    SceneMirrorsRegistry
    FocusIsTop
    NoLostRepaint
    KeysNotLeaked
