SPECIFICATION Spec
CONSTANTS
    max_char_x = 10
    max_char_y = 3
    MaxBoot = 3
    BootLengths = {0, 3, 5}
    MaxDigits = 2
    MaxTyped = 3
    ReplyLength = 4
    UnknownLength = 4
INVARIANTS
    TypeOK
    AllTextDrawn
    PromptBelowText
    CommandIsTyped
