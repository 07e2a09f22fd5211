CONSTANTS
    MaxLevel = 2
    Second = 2
    Wrap = 8
    Rates = {1, 3}
    Sizes = {0, 2}
    Seconds = {0, 1}
    MaxElapsed = 2
SPECIFICATION Spec
PROPERTY IdentifiesWhenAsked
