\* Two calls in one log.
SPECIFICATION Spec
CONSTANTS
    Words <- MCWords
    Unknown = {"session.updated"}
    Questions = {"auto_incident_location", "claimant_name"}
    Usages <- MCUsages
    Unlogged = {"audio.delta", "audio.stopped", "response.output_item.added"}
    MaxSteps = 4
INVARIANTS
    LogTypeOK
    AgentViewsAgree
    ToolViewsAgree
    FieldsSound
    TotalsAgree
CHECK_DEADLOCK FALSE
