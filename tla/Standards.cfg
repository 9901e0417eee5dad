SPECIFICATION ParserSpec
CONSTANTS
    Identifier = {"foo"}
    Spelling <- MCSpelling
INVARIANTS
    ParsedIsMeant
CHECK_DEADLOCK FALSE
