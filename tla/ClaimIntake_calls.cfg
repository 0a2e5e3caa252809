\* Three tool calls, of which any request and any consultation may fail.
SPECIFICATION Spec
CONSTANTS
    Patterns = {"chat-supervisor", "sequential-handoff"}
    Catalogue <- MCCatalogue
    ClaimTypes = {"auto", "boat"}
    Spoken <- MCSpoken
    Answers = {"date", "story", "vague"}
    MaxCalls = 3
INVARIANTS
    AsksWhatIsMissing
    VerdictsExplained
CHECK_DEADLOCK FALSE
