SPECIFICATION RefillSpec
CONSTANTS
    Prices <- MCPrices
    Steps <- MCSteps
    MaxQuantity = 5
    MaxVolume = 4
    Consumption = 35
    Recovery = 60
    Confirmation = 50
    Window = 3
    Tolerance = 25
PROPERTIES CreditFollowsTrade DelayedCreditIsGrowth ConsumedHasNotSurvived
