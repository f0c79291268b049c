\* Two messages under way in each direction; three elements in a table
\* of two rows; two axis ranges; a number within, below and above limits
\* that rise, fall or are not there; two views of one list, beside a number and
\* a signal; two combo boxes for a parameter and a state that change their offer.
CONSTANTS
    Bits = {0, 1}
    Boxes = {"box"}
    BitOf <- MCBitOf
    Fields = {"field"}
    Ask = Ask
    MaxQueue = 2
    None = None
    MaxList = 2
    Labels = {"a", "b"}
    Elements <- MCElements
    Shown <- MCElements
    MaxRows = 2
    Ranges <- MCRanges
    Spacings = {2, 6}
    Extent <- MCExtent
    Sliders = {"slider"}
    Spins = {"spin"}
    Displays = {"bar"}
    FormRange <- MCFormRange
    Numbers = {0, 5}
    Limits <- MCLimits
    Steps = 4
    Nobody = Nobody
    Views = {"v", "w"}
    Lists = {"l"}
    Scalars = {"n"}
    Signals = {"s"}
    Branch = Branch
    DeviceLists <- MCDeviceLists
    Number = Number
    Blank = ""
    Combos = {"empty", "filled"}
    Selections = {"i", "j"}
    Editable = {"i"}
    Texts = {"x", "y", "z"}
    Offers <- MCOffers
    FormItems <- MCFormItems
    Nothing = ""
SPECIFICATION MCSpec
INVARIANTS TypeOK
    ShowsContainer ContainerIsDevice NoLostBit
    CellsAreUpdated RowsComeBack SelectedIsOffered
PROPERTIES CursorsKeep EditsFollowHand
CHECK_DEADLOCK FALSE
