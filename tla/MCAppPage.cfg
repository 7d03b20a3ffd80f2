\* One app registration on the screen: what it shows after its own changes, saves, dialogs, busy flags.
SPECIFICATION FairSpec
CONSTANTS
    FieldsOf <- MCFieldsOf
    Choices <- MCChoices
    BadLimit = 0
    Secrets = {sec}
    Scopes = {sco}
    FirstItems = {sco}
    Selections = {x, y}
    MaxWrites = 2
    None = None
INVARIANT
    PageSound
PROPERTIES
    SavesUndoForCause
    ShownStaysForCause
    BusyEnds
