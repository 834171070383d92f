SPECIFICATION PageSpec
CONSTANTS
    None = None
    bukhara = bukhara
    navoi = navoi
    chust = chust
    chust0 = chust0
    nowhere = nowhere
    PointKinds = {"shop"}
    LineKinds = {"crossing"}
    Rule <- MCRule
    MaxPhotos = 2
    MaxPlace = 4
    ClickAt = {0, 3, 4}
    DragTo = {4}
    MaxIds = 2
    MaxJobs = 2
    MaxOpened = 2
    Spots = {"town", "desert"}
    Cities = {bukhara, navoi}
    NearestCity <- MCNearestCity
    Near = {"town"}
    ThemeAreas = {"a1", "a2"}
    Others = {"o"}
    MOBILE_DARK_THEME = TRUE
    Views = {"near", "near2", "far"}
    Far = {"far"}
    ObjectCategories = {food, shop}
    ObjectIds = {"p1", "p2"}
    LineObjects = {"p2"}
    ViewOfLine <- MCViewOfLine
    PhotosOf <- MCPhotosOf
    Images = {"i1", "i2", "i3"}
    Pictures = {"s1"}
    PictureOf <- MCPictureOf
    MaxWaiting = 2
    Texts = {"choyxona", "mahalla", "qalampir"}
    Short = {"", "q"}
    ResultsOf <- MCResultsOf
    Mahallas = {"mahalla"}
    Unplaced = {"choyxona"}
    MaxBlurs = 2
    Sizes <- MCSizes
    Clicks <- MCClicks
    MaxCopies = 2
    Heights = {360, 740}
    Fingers = {300, 303, 600}
    Bearings = {0, 4, 900}
    Secure = TRUE
    Clickable = {2, 4, 6, 7}
    Times = {540, 1320}
    Lengths = {4, 5, 13}
    MaxLength = 12
    RouteIds = {chust, chust0, nowhere}
    RouteCities = {chust}
    CityOf <- MCCityOf
    DefaultCity = chust
    Params = {"ll", "z", "utm"}
    BaseModes = {streets, satellites}
    Composite = {streets}
    Pitches = {0, 9, 30, 55}
    pitch3d = 55
INVARIANTS TypesOK SentAsShown ViewRight LayersRight FieldsRight
CHECK_DEADLOCK FALSE
