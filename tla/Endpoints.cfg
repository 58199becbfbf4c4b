SPECIFICATION Spec
CONSTANTS
    Requests = {r1}
    Identities = {"strict", "redact", "open"}
    PolicyOf <- PolicyOfThree
    TeamOf <- TeamOfThree
    Namespaces <- Named
    NoAnswer = NoAnswer
INVARIANTS TypeOK CachedWasScreened ProviderSeesScreened TenantsApart
CHECK_DEADLOCK FALSE
