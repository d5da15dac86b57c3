SPECIFICATION Behaviours
\* The lists of two parties that write two messages, with one fault.
CONSTANTS
    Party = {"a", "b"}
    Kinds = {{"keeps"}, {"rewrites", "graph"}}
    Faults = {"crash", "answer", "refused", "ignored", "busy", "missed"}
    MaxSaid = 2
    MaxFaults = 1
\* The way of one text: every thing in it that something reacts to, alone, and
\* a whole body pasted.
CONSTANTS
    Forms = {"signal", "group", "file", "groupfile"}
    Texts = {{}, {"escapes"}, {"line"}, {"line", "pasted"}, {"word"}, {"header"},
             {"object"}, {"long"}, {"dense"}}
    Mishaps = {"crash", "cut", "busy", "key"}
    MaxMishaps = 1
INVARIANT
    OpenedIsShown
PROPERTIES
    AllShown
    BothShowIt
CHECK_DEADLOCK FALSE
