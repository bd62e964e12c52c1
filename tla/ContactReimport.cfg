SPECIFICATION ContactsSpec
CONSTANTS
    email = email
    name = name
    file1 = file1
    file2 = file2
    Values = {email, name}
    Identifiers = {email}
    Files = {file1}
    Cards <- ContactCards
    Importers = {i1}
    TopN = 1
    MinSample = 2
    MaxEntities = 3
    MaxImports = 2
    MaxCuts = 1
    MaxStops = 1
INVARIANT ImportRecorded
CHECK_DEADLOCK FALSE
