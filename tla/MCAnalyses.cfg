SPECIFICATION AnalysesSpec
CONSTANTS
    WidgetKinds = {"react", "vue", "angular", "svelte", "vanilla"}
    MaxAttempts = 2
    Life = 1
    MaxSessions = 3
    MaxCalls = 2
    Frameworks = {"express", "koa", "fastify", "nest"}
    Instances = {"i1", "i2"}
    PluginSessions = {s1}
    PluginRequests = {1, 2, 3}
    PluginAttempts = 1
    Captchas = {c1}
    Subscribers = {b1}
    Credentials = {"none", "jwt", "scoped_jwt", "revoked_jwt", "api_key"}
    RequestLimit = 2
    MaxOperations = 3
    Numbers = {2, 3, 7}
    Alternatives = {1, 2, 8, 9}
    Cells = {1, 2, 3}
    Charset = {1, 2}
    SessionMetrics = {5}
    Sessions <- SeenSessions
    MinSamples = 2
    MaxSamples = 3
    CacheTTL = 2
    MaxAge = 1
    MaxChanges = 2
    MaxTime = 4
    MaxModels = 3
    MaxUpdates = 3
    Gaps = {50, 600, 4000}
    Durations = {60}
    Codes = {"a", "b"}
    MaxKeyEvents = 4
    FirstTimes = {0, 1}
    MoveGaps = {0, 5, 2000}
    MaxMovements = 4
    Visitors <- SeenDevices
    Types = {"security_event", "failed_authentication"}
    AuditLevels = {"warning", "critical"}
    Details = {"one", "two"}
    Hour = 1
    RetentionDays = 1
    MaxEvents = 3
    MaxAuditTime = 4
    Controls = {c1, c2}
    Severities = {"high"}
    Progress = {"resolved"}
    MetricNames = {m1}
    Values = {1}
    SampleWindow = 1
    MaxUptimes = 3
    MaxMetrics = 2
    MaxIncidents = 1
    MaxSocTime = 3
    Ips = {i1}
    Signatures = {b1, b2}
    Patterns = {a1, a2}
    MaxIndicators = 3
    Subjects = {s1}
    Purposes = {p1}
    DataTypes = {d1}
    Rights = {"erasure", "rectification", "access"}
    ConsentStatuses = {"granted"}
    Verifying = TRUE
    Anonymizing = TRUE
    ConsentLife = 1
    RetentionLife = 0
    MaxConsents = 2
    MaxRecords = 2
    MaxRequests = 2
    MaxGdprTime = 2
INVARIANTS
    WidgetSound
    ComputedRight
PROPERTIES
    
    LoadingEnds
    RecordsSound
    ErasureSound
    ErasureCompletes
    
CHECK_DEADLOCK FALSE
