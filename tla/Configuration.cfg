\* One or two workers, a replaced process, edits of the rules file: every line of
\* two or three terms.
SPECIFICATION Spec
CONSTANTS
    p1 = p1
    p2 = p2
    home = home
    other = other
    None = None
    Letters = {"x"}
    Marks = {"dash"}
    Workers = {p1, p2}
    Deployments <- KnownDeployments
    Files <- AllFiles
    Starts <- AllStarts
    Edits <- Later
    Raw = {home, other, "link"}
    Storages = {home, other}
    RealPath <- Sent
    Base = home
    Texts <- Said
    Conversations <- Told
    MaxEdits = 1
INVARIANTS ConfigTypeOK WorkersAgree RulesMeanWhatIsWritten 
