\* A partner's submission with a middle name and no father's name.
SPECIFICATION Spec
CONSTANTS
    Names = {a, b}
    Blank = Blank
    Absent = Absent
    Legacy <- OldRows
INVARIANTS PartnerNamesKept
CHECK_DEADLOCK FALSE
