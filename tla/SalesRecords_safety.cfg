CONSTANTS
    Orgs = {o1, o2}
    Companies = {c1, c2}
    Contacts = {k1}
    Pipelines = {p1, p2}
    Stages = {s1}
    Deals = {d1}
    Leads = {l1}
    Handlers = {h1, h2}
    Unborn = Unborn
    Gone = Gone
    None = None
    Keep = Keep
    MaxLoad = 2
SPECIFICATION Spec
CONSTRAINT LightLoad
SYMMETRY Symmetry
INVARIANTS
    TypeOK
    TenantIsolation
PROPERTIES
    OneTenantAtATime
    CoherentDeals
    OpenLeadsConvert
    CompaniesKeepContacts
CHECK_DEADLOCK FALSE
