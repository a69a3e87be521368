SPECIFICATION Spec
CONSTANTS
    ORG_ADMIN = ORG_ADMIN
    editor = editor
    read = read
    create = create
    Users = {u1}
    Accounts = {a1}
    Templates <- MCTemplates
    Custom = {editor}
    Registry <- MCRegistry
    Former <- MCFormer
    ProjectRead = read
    Projects = {j1}
    Processes = {s1}
    MaxChanges = 3
    MaxStarts = 1
    Requests = {q1}
    MaxRotations = 2

CHECK_DEADLOCK FALSE
INVARIANTS
    TypeOK
    GrantsAsIssued
    RotationEndsTokens
