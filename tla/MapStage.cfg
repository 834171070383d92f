SPECIFICATION Spec
\* Points: one with nothing to see, one on a symbol and on an object, one on
\* the label of a mahalla and outside the service area.
CONSTANTS
    Nothing = Nothing
    Points = {plain, symbol, label}
    Named = {symbol}
    OnPlaces = {symbol}
    AreaLabels = {label}
    Outside = {label}
    MaxPoints = 2
    MaxLabels = 2
INVARIANTS TypeOK LabelsRight NothingLeftBehind RouteDrawn AddressRight
