\* The instance of MCDropWidgets; what list views are bound to.
CONSTANTS
    Bits = {0, 1}
    Boxes = {"box"}
    BitOf <- MCBitOf
    Fields = {"field"}
    Ask = Ask
    MaxQueue = 2
    None = None
    MaxList = 2
    Labels = {"a", "b"}
    Elements <- MCElements
    Shown <- MCElements
    MaxRows = 2
    Ranges <- MCRanges
    Spacings = {2, 6}
    Extent <- MCExtent
    Sliders = {"slider"}
    Spins = {"spin"}
    Displays = {"bar"}
    FormRange <- MCFormRange
    Numbers = {0, 5}
    Limits <- MCLimits
    Steps = 4
    Nobody = Nobody
    Views = {"v", "w"}
    Lists = {"l"}
    Scalars = {"n"}
    Signals = {"s"}
    Branch = Branch
    DeviceLists <- MCDeviceLists
    Number = Number
    Blank = ""
    Combos = {"empty", "filled"}
    Selections = {"i", "j"}
    Editable = {"i"}
    Texts = {"x", "y", "z"}
    Offers <- MCOffers
    FormItems <- MCFormItems
    Nothing = ""
SPECIFICATION MCSpec
INVARIANTS OnlyListsBound
CHECK_DEADLOCK FALSE
