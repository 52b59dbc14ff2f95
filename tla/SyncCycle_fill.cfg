SPECIFICATION Spec
CONSTANTS
    Services = {abs, kosync, story}
    Audio = abs
    Device = kosync
    Marked = {story}
    Rough = {}
    Settling = {}
    Top = 2
    Bounds <- Forwards
    None = None
    abs = abs
    kosync = kosync
    story = story
PROPERTY FillNotDiscarded
