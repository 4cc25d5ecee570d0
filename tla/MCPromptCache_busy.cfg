SPECIFICATION Spec
CONSTANTS
  NSlots = 2
  Tokens = {"a", "b"}
  Prompts <- PromptValues
  Adapters = {"l"}
  Asked = {"default"}
  Named = {1}
  HasDraft = FALSE
  Unified = TRUE
  SaveIdle = TRUE
  Similarity = 10
  LimitSize = 4
  LimitTokens = 3
  Sampled = {"b"}
  Filed <- FiledValues
  MaxLen = 2
  Refusals = {"main"}
  Aborts = FALSE
PROPERTY
  BusyPromptStays
