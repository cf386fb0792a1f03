SPECIFICATION Spec
CONSTANTS
  a = a p = p bad = bad o = o e = e k = k s = s
  Unset = Unset Null = Null Missing = Missing Torn = Torn Closed = Closed None = None
  Nobody = Nobody Down = Down
  Page = {a} Plain = {p, bad} Rejected = {bad} Over = {o} EnvValue = {e}
  Secret = {s} EnvKey = {k}
  MaxChanges = 2 MaxEpoch = 2
CHECK_DEADLOCK FALSE
INVARIANTS EnvironmentStaysOut
PROPERTIES UnseenChangesAreKept UneditedSettingsAreKept ReplacedIsBackedUp
