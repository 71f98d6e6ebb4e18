SPECIFICATION TextSpec
CONSTANTS
  Keys = {"k1", "k2"}
  Models = {"deepseek-chat", "m1", "m2"}
  Environments <- MCEnvironments
  FirstFiles <- MCFiles
  Forms <- MCForms
  Texts = {"send", "stop"}
  Installations <- MCInstallations
  MaxLaunches = 3
  MaxSaves = 3
INVARIANTS
  RunAsShown
  TextsCurrent
PROPERTIES
  SettingsSurvive
