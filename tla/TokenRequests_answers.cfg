SPECIFICATION Spec
CONSTANTS
    r1 = r1
    r2 = r2
    coin = coin
    vault = vault
    other = other
    old = old
    gas = gas
    Requests = {r1, r2}
    Tokens = {coin, vault, other, old, gas}
    Natives = {gas}
    Remap <- OldCoin
    Enabled = {"enso", "lifi", "curve", "defillama"}
    Unavailable = {"enso"}
    Elsewhere = {}
    Priority <- Priorities
    Vaults <- TwoVaults
    Truth <- Facts
    Asks <- SomeAsks
    Ends <- SomeEnds
    Symbols = {"", "native", "COIN"}
    MaxUint = 40
    PriceScale = 10
INVARIANTS TypeOK AnswerRight
PROPERTIES KnownStaysKnown
