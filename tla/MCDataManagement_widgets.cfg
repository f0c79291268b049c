\* A slider, a button, a LED and two cells of one name in two forms, two ids, a file.
CONSTANTS
    i1 = i1
    i2 = i2
    slider = slider
    led = led
    button = button
    cell1 = cell1
    cell2 = cell2
    p1 = p1
    p2 = p2
    p3 = p3
    form1 = form1
    form2 = form2
    fig1 = fig1
    fig2 = fig2
    Ids = {i1, i2}
    Widgets = {slider, led, button, cell1, cell2}
    Plots = {}
    Names = {"cell", "slider", "led", "button"}
    NameOf <- MCNameOf
    None = None
    NoId = NoId
    MaxGraphs = 2
    MaxDrops = 2
    MaxLoads = 2
    Sliders = {slider}
    Indicators = {led}
    Buttons = {button}
    Forms = {form1, form2}
    Figures = {}
    Content <- WidgetsContent
    Experiments <- WidgetsFiles
SPECIFICATION Spec
INVARIANTS AnswerFindsMapper
PROPERTIES ImplementsBindings
