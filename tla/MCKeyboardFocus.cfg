SPECIFICATION Spec
CONSTANTS
    a = a
    b = b
    keyboard = keyboard
    text = text
    Surface <- Windows
    NoSurface = NoSurface
    Keyboard = {keyboard}
    TextInput = {text}
    Key <- Keys
    ModifierOf <- ModifierKeys
    MaxMail = 2
SYMMETRY AnyWindow
INVARIANTS
    FocusTold
    FocusFollowsActivation
    CommittedOnce
    NoStuckKey
    SymbolsAgree
