SPECIFICATION MSpec
CONSTANTS
    BufferSize = 3
    Options <- SomeOptions
    Machines <- SomeMachines
    Outputs <- SomeOutputs
    FullHostName <- Host
    UpperCase <- Uppers
    MetadataFiles <- SomeFiles
    EndpointId <- Urn
    Addresses = {"v4", "v6"}
    MaxGets = 2
CHECK_DEADLOCK FALSE
INVARIANTS LinesExact IdentityFromOneSource TemplateFilled
PROPERTIES GetIsAnswered
