CONSTANTS
    Ids = {1, 2}
    Parts = {"a", "b"}
    Clients = {1, 2}
    Tasks = {1, 2}
    None = None
    IdOf <- TwoClients
    Serves <- OwnServes
    TitleArgs <- SingleTitles
SPECIFICATION Spec
INVARIANT SubscriptionIsRouted
