\* One visit to each part of the web app. The visits are bounded and may end.
CONSTANTS
    Product = {"p1", "p2", "p3"}
    Shop = {"s1", "s2"}
    ShopOf <- Sellers
    CartCall = {"cart1", "cart2"}
    MaxLineId = 3
    MaxQty = 2
    MaxPress = 3
    Req = {"a", "b"}
    Saved = 2
    MaxRow = 3
    MaxSave = 2
    Slot = {"a", "b"}
    Label = {"x"}
    MaxProduct = 2
    MaxUnits = 1
    MaxDeal = 2
    Tab = {"a", "b"}
    MaxFirst = 3
    MaxTry = 4
    Admin = {"plain", "super"}
    Super = {"super"}
    Role = {"rider", "super_admin"}
    Foreign = {"auditor"}
    Stored <- Metadata
    MaxAct = 3
    Claims <- People
    First <- FirstPaths
    Again <- AgainPaths
    MaxAsk = 2
    MaxFlight = 1
    MaxBlip = 1
SPECIFICATION WebSpec
INVARIANTS
    WebTypeOK
    PagesShowTheServer
    EmptiedCartKeepsDialog
    SecondDefaultOnlyByARacedCreate
    EditedAddressStaysItself
    FirstRequestsAgree
    ShownWhereAsked
PROPERTIES
    NoWidgetStuck
    RedirectsEnd
    OverwritesOnlyWhatMovedOn
CHECK_DEADLOCK FALSE
