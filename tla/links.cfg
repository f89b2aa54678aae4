CONSTANTS
    Sender <- Thread
    Scenario <- EachLink
    Capacity = 6
SPECIFICATION Spec
CHECK_DEADLOCK FALSE
PROPERTIES
    RefinesLink
    Delivered
