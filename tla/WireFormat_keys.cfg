SPECIFICATION GeneratedSpec
CONSTANTS
    Specs <- MCSpecs
    Spelt <- MCSpelt
    Split <- MCSplit
    Prefix <- MCPrefix
    Keyboard = "Keyboard"
    DefaultKeys <- MCDefaultKeys
    DefaultAxes = {"X"}
    MaxPorts = 8
    Bioses <- MCBioses
    Asks <- MCAsks
    Forms <- MCForms
    Plain = "plain"
    FileName <- MCFileName
    Dumps <- MCDumps
    Offers <- MCOffers
    Ident <- MCIdent
    Refused = Refused
INVARIANT ConsoleHasItsKeys
