CONSTANTS
  Inputs <- ComposeInputs
  MaxPreflight = 2
  MaxMishaps = 1
SPECIFICATION ProcessSpec
INVARIANT SecretsInFileSuffice
