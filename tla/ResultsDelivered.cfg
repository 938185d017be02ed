CONSTANTS
  Clients = {"anthropic"}
  Upstreams = {"openai_chat", "gemini"}
  Turns = 2
SPECIFICATION Spec
INVARIANT ResultsDelivered
