SPECIFICATION Spec
CONSTANTS
  NSlots = 1
  Tokens = {"a", "b"}
  Prompts <- PromptValues
  Adapters = {"l", "m"}
  Asked = {"default", "m"}
  Named = {}
  HasDraft = TRUE
  Unified = TRUE
  SaveIdle = FALSE
  Similarity = 10
  LimitSize = 4
  LimitTokens = 3
  Sampled = {"b"}
  Filed <- FiledValues
  MaxLen = 2
  Refusals = {"main"}
  Aborts = FALSE
INVARIANT
  AdaptersAgree
