SPECIFICATION Spec
CONSTANTS
    Arms <- MCArms
    Tolerated <- MCTolerated
PROPERTIES
    NoStartOverOrphan
