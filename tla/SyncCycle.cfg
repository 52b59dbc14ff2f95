SPECIFICATION FairSpec
CONSTANTS
    Services = {abs, kosync, story}
    Audio = abs
    Device = kosync
    Marked = {story}
    Rough = {kosync}
    Settling = {story}
    Top = 2
    Bounds <- Mixed
    None = None
    abs = abs
    kosync = kosync
    story = story
INVARIANT TypeOK
INVARIANT EchoNeverLeads
PROPERTY TrailIsTheReaders
PROPERTY OnlyRelays
PROPERTY Converges
PROPERTY Quiesces
