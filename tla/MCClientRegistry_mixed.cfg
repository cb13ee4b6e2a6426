CONSTANTS
    Ids = {1, 2}
    Parts = {"a", "b"}
    Clients = {1, 2, 3}
    Tasks = {1, 2}
    None = None
    IdOf <- ThreeClients
    Serves <- MixedServes
    TitleArgs <- SingleTitles
SPECIFICATION Spec
INVARIANT TypeOK
INVARIANT NoDuplicateSubscriber
INVARIANT TitleCountExact
INVARIANT NoDanglingSubscriber
